---------------------------- MODULE Spec2Model ----------------------------
(***************************************************************************)
(* A model of ELFRemove (src/elfremove/elfremove.py): the in-place removal *)
(* of function symbols from a shared library and the cascade through       *)
(* .dynsym, .dynstr, .hash, .gnu.hash, .gnu.version, .gnu.version_r/_d,    *)
(* the two relocation tables and the dynamic tags.                         *)
(*                                                                         *)
(* Offsets and indices are 0-based as in the source; TLA+ sequences are    *)
(* 1-based, so element i of a Python list l is l[i + 1] here.              *)
(***************************************************************************)
EXTENDS Integers, Sequences, FiniteSets, TLC

(***************************************************************************)
(* Generic list helpers (Python list operations used by the source)        *)
(***************************************************************************)

\* l[i] for a 0-based index
At(l, i) == l[i + 1]

\* list.pop(i): the list without its element at 0-based index i
Pop(l, i) == SubSeq(l, 1, i) \o SubSeq(l, i + 2, Len(l))

\* the list with element at 0-based index i replaced by v
Put(l, i, v) == [l EXCEPT ![i + 1] = v]

\* n copies of v
Rep(n, v) == [i \in 1..n |-> v]

Max2(a, b) == IF a >= b THEN a ELSE b

\* tuple comparison as Python compares 2-tuples
PairLT(a, b) == a[1] < b[1] \/ (a[1] = b[1] /\ a[2] < b[2])

PairLE(a, b) == a[1] < b[1] \/ (a[1] = b[1] /\ a[2] <= b[2])

\* insert index i into the sorted index list perm, after every index whose
\* key is <= keys[i] (stable)
InsertIdx(perm, i, keys) ==
    LET n == Cardinality({j \in 1..Len(perm) : PairLE(keys[perm[j]], keys[i])})
    IN  SubSeq(perm, 1, n) \o <<i>> \o SubSeq(perm, n + 1, Len(perm))

RECURSIVE SortPermUpTo(_, _)
SortPermUpTo(keys, k) ==
    IF k = 0 THEN <<>> ELSE InsertIdx(SortPermUpTo(keys, k - 1), k, keys)

\* sorted(l, key=...): the stable ascending order of 1..Len(keys) by pair keys
SortPerm(keys) == SortPermUpTo(keys, Len(keys))

\* bisect.bisect_left(a, x, lo): binary search over a list of pairs
RECURSIVE BisectLoop(_, _, _, _)
BisectLoop(a, x, lo, hi) ==
    IF lo < hi
    THEN LET mid == (lo + hi) \div 2
         IN  IF PairLT(At(a, mid), x)
             THEN BisectLoop(a, x, mid + 1, hi)
             ELSE BisectLoop(a, x, lo, mid)
    ELSE lo

bisect_left(a, x, lo) == BisectLoop(a, x, lo, Len(a))

(***************************************************************************)
(* 32-bit arithmetic and the two symbol hash functions                     *)
(***************************************************************************)

\* TLC integers are 32-bit signed, so a 32-bit unsigned word is kept as the
\* pair <<high 16 bits, low 16 bits>> wherever it can exceed 2^31 - 1.
Pow2_16 == 65536

Pow2_24 == 16777216

Pow2_28 == 268435456

RECURSIVE Xor(_, _)
Xor(a, b) ==
    IF a = 0 THEN b
    ELSE IF b = 0 THEN a
    ELSE ((a + b) % 2) + 2 * Xor(a \div 2, b \div 2)

\* One round of _elfhash for the byte c.  h0 < 2^28 on entry (the round ends
\* with h & ~g).  (h0 << 4) + c is formed in two parts: its top nibble (the
\* bits of g) and the 28 bits below it.
ElfHashStep(h0, c) ==
    LET s    == ((h0 % Pow2_24) * 16) + c
        nib  == ((h0 \div Pow2_24) + (s \div Pow2_28)) % 16
        rest == s % Pow2_28
    IN  IF nib # 0 THEN Xor(rest, nib * 16) ELSE rest

RECURSIVE ElfHashFrom(_, _, _)
ElfHashFrom(name, k, h) ==
    IF k > Len(name) THEN h ELSE ElfHashFrom(name, k + 1, ElfHashStep(h, name[k]))

_elfhash(name) == ElfHashFrom(name, 1, 0)

\* h = ((h << 5) + h + c) & 0xFFFFFFFF on a <<high, low>> word
GnuHashStep(h, c) ==
    LET lo == (h[2] * 33) + c
        hi == (h[1] * 33) + (lo \div Pow2_16)
    IN  <<hi % Pow2_16, lo % Pow2_16>>

RECURSIVE GnuHashFrom(_, _, _)
GnuHashFrom(name, k, h) ==
    IF k > Len(name) THEN h ELSE GnuHashFrom(name, k + 1, GnuHashStep(h, name[k]))

_gnuhash(name) == GnuHashFrom(name, 1, <<0, 5381>>)

\* w % n for a <<high, low>> word and a small n
WordMod(w, n) == (((w[1] % n) * (Pow2_16 % n)) + (w[2] % n)) % n

\* w & ~0x1, w & 0x1 and w | 0x1 on a <<high, low>> word
ClearBit0(w) == <<w[1], w[2] - (w[2] % 2)>>

Bit0(w) == w[2] % 2

SetBit0(w) == <<w[1], w[2] - (w[2] % 2) + 1>>

ZeroWord == <<0, 0>>

(***************************************************************************)
(* .dynstr byte strings                                                    *)
(***************************************************************************)

\* the byte at 0-based offset o of a string table (zero past its end)
ByteAt(bytes, o) == IF o < Len(bytes) THEN bytes[o + 1] ELSE 0

RECURSIVE CStrLen(_, _)
CStrLen(bytes, o) ==
    IF ByteAt(bytes, o) = 0 THEN 0 ELSE 1 + CStrLen(bytes, o + 1)

\* parse_cstring_from_stream: the bytes from offset o up to the next NUL
CStr(bytes, o) == [i \in 1..CStrLen(bytes, o) |-> ByteAt(bytes, o + i - 1)]

\* the least offset at which the string s (followed by a NUL) starts, or -1
FindStr(bytes, s) ==
    LET hits == {o \in 0..(Len(bytes) - 1) : CStr(bytes, o) = s}
    IN  IF hits = {} THEN -1 ELSE CHOOSE o \in hits : \A p \in hits : o <= p

(***************************************************************************)
(* ELF constants                                                           *)
(***************************************************************************)

STT_OBJECT == 1

STT_FUNC == 2

STB_LOCAL == 0

STB_GLOBAL == 1

R_X86_64_64 == 1

R_X86_64_GLOB_DAT == 6

R_X86_64_JUMP_SLOT == 7

R_X86_64_RELATIVE == 8

\* sizeof(Elf64_Sym), sizeof(Elf64_Rela), a .gnu.version entry, a hash word
SymEntSize == 24

RelaEntSize == 24

VersionEntSize == 2

HashWordSize == 4

\* the all-zero symbol table entry and relocation entry (zero-filled bytes)
ZeroSym == [st_name |-> 0, bind |-> 0, type |-> 0, st_value |-> 0, st_size |-> 0]

ZeroRel == [r_offset |-> 0, sym |-> 0, type |-> 0, r_addend |-> 0]

(***************************************************************************)
(* Names used by the input libraries (ASCII)                               *)
(***************************************************************************)

N_empty == <<>>

N_foo == <<102, 111, 111>>

N_bar == <<98, 97, 114, 115>>

N_getline == <<103, 101, 116, 108, 105, 110, 101>>

N_line == <<108, 105, 110, 101>>

N_puts == <<112, 117, 116, 115>>

N_init == <<95, 105, 110, 105, 116>>

N_tab == <<116, 97, 98, 108, 101>>

N_libc == <<108, 105, 98, 99, 46, 115, 111>>

N_libm == <<108, 105, 98, 109, 46, 115, 111>>

N_libx == <<108, 105, 98, 120, 46, 115, 111>>

N_V1 == <<86, 49>>

N_V2 == <<86, 50, 46, 49>>

(***************************************************************************)
(* The input library.  A library description (symbols by name, relocations *)
(* by symbol name) is laid out the way a static linker lays out a shared   *)
(* object: .dynsym is the null symbol, the undefined symbols, then the     *)
(* defined symbols ordered by GNU hash bucket; .dynstr holds each string   *)
(* once, a string that is the tail of another sharing its bytes; .hash,    *)
(* .gnu.hash and .gnu.version are consistent with .dynsym.  This is the    *)
(* file ELFRemove.__init__ opens.                                          *)
(***************************************************************************)

SymDesc(n, v, sz, b, t) == [name |-> n, value |-> v, size |-> sz, bind |-> b, type |-> t]

RelDesc(off, n, t, a) == [r_offset |-> off, name |-> n, type |-> t, r_addend |-> a]

RECURSIVE AddStrings(_, _, _)
AddStrings(bytes, strs, k) ==
    IF k > Len(strs) THEN bytes
    ELSE AddStrings(IF FindStr(bytes, strs[k]) >= 0 THEN bytes
                    ELSE bytes \o strs[k] \o <<0>>,
                    strs, k + 1)

\* a string table holding every string of strs (longest first, so that a
\* string which is the tail of an earlier one shares its bytes)
StringTable(strs) ==
    LET keys == [i \in 1..Len(strs) |-> <<0 - Len(strs[i]), 0>>]
        perm == SortPerm(keys)
    IN  AddStrings(<<0>>, [i \in 1..Len(strs) |-> strs[perm[i]]], 1)

\* the defined symbols in ascending GNU hash bucket
ByGnuBucket(defd, nb) ==
    LET keys == [i \in 1..Len(defd) |-> <<WordMod(_gnuhash(defd[i].name), nb), 0>>]
        perm == SortPerm(keys)
    IN  [i \in 1..Len(defd) |-> defd[perm[i]]]

NullDesc == SymDesc(N_empty, 0, 0, STB_LOCAL, 0)

\* the symbol descriptions in .dynsym order
DynsymOrder(lib) == <<NullDesc>> \o lib.undef \o ByGnuBucket(lib.defd, lib.gnu_nbuckets)

\* 0-based .dynsym index of the symbol named n (0 for the empty name)
IndexOfName(order, n) ==
    IF n = N_empty THEN 0
    ELSE (CHOOSE i \in 1..Len(order) : order[i].name = n) - 1

\* the four header words of .gnu.hash and a bloom filter of one 64-bit word
GnuHashHeaderSize == 24

\* the linker's .gnu.hash for the symbols order[symoffset + 1 ..]
LinkGnuHash(order, symoffset, nb) ==
    LET n      == Len(order) - symoffset
        bkt(i) == WordMod(_gnuhash(order[symoffset + i].name), nb)
        last(i) == i = n \/ bkt(i + 1) # bkt(i)
    IN  [nbuckets  |-> nb,
         symoffset |-> symoffset,
         buckets   |-> [b \in 1..nb |->
                          LET mem == {i \in 1..n : bkt(i) = b - 1}
                          IN  IF mem = {} THEN 0
                              ELSE symoffset - 1 + CHOOSE i \in mem : \A j \in mem : i <= j],
         chains    |-> [i \in 1..n |->
                          LET h == ClearBit0(_gnuhash(order[symoffset + i].name))
                          IN  IF last(i) THEN SetBit0(h) ELSE h],
         sh_size   |-> GnuHashHeaderSize + (nb + n) * HashWordSize]

\* the linker's .hash: each bucket chains its symbols in ascending index
LinkElfHash(order, nb) ==
    LET n      == Len(order)
        bkt(i) == _elfhash(order[i + 1].name) % nb
        mem(b) == {i \in 1..(n - 1) : bkt(i) = b}
        least(S) == IF S = {} THEN 0 ELSE CHOOSE i \in S : \A j \in S : i <= j
    IN  [nbuckets |-> nb,
         nchains  |-> n,
         buckets  |-> [b \in 1..nb |-> least(mem(b - 1))],
         chains   |-> [i \in 1..n |->
                         IF i = 1 THEN 0
                         ELSE least({j \in mem(bkt(i - 1)) : j > i - 1})],
         sh_size  |-> (2 + nb + n) * HashWordSize]

\* a symbol table entry whose name is at its offset in the string table
SymEntry(d, strtab) ==
    [st_name |-> FindStr(strtab, d.name), bind |-> d.bind, type |-> d.type,
     st_value |-> d.value, st_size |-> d.size]

\* the index of the first non-local entry (sh_info of a linked symbol table)
FirstNonLocal(ents) ==
    LET nl == {i \in 1..Len(ents) : ents[i].bind # STB_LOCAL}
    IN  IF nl = {} THEN Len(ents) ELSE (CHOOSE i \in nl : \A j \in nl : i <= j) - 1

RelEntry(r, order) ==
    [r_offset |-> r.r_offset, sym |-> IndexOfName(order, r.name),
     type |-> r.type, r_addend |-> r.r_addend]

RelSection(rels, order) ==
    LET ents == [i \in 1..Len(rels) |-> RelEntry(rels[i], order)]
    IN  [present |-> Len(rels) > 0, ents |-> ents,
         sh_size |-> Len(rels) * RelaEntSize, _size |-> Len(rels) * RelaEntSize]

\* the words of a .hash section: nbucket, nchain, buckets, chains
HashWords(h) == <<h.nbuckets, h.nchains>> \o h.buckets \o h.chains

\* _get_string_range: (start, start + length of the string at start)
_get_string_range(bytes, start) == <<start, start + CStrLen(bytes, start)>>

DynstrTags == {"DT_SONAME", "DT_NEEDED", "DT_RPATH", "DT_RUNPATH"}

\* every aux name offset of a version section, in file order
RECURSIVE AuxNames(_, _)
AuxNames(vers, k) ==
    IF k > Len(vers) THEN <<>> ELSE vers[k].aux \o AuxNames(vers, k + 1)

\* _parse_dynstr: the reference count of each (start, end) range of .dynstr
\* over the dynamic tags of the group, the symbol names and the aux names
_parse_dynstr(dynamic, syms, verdef, verneed, bytes) ==
    LET tagoffs == [i \in 1..Len(dynamic) |->
                       IF dynamic[i].d_tag \in DynstrTags THEN dynamic[i].d_val ELSE -1]
        symoffs == [i \in 1..Len(syms) |-> syms[i].st_name]
        offs    == tagoffs \o symoffs \o AuxNames(verdef, 1) \o AuxNames(verneed, 1)
        used    == {i \in 1..Len(offs) : offs[i] >= 0}
        rng(i)  == _get_string_range(bytes, offs[i])
    IN  [k \in {rng(i) : i \in used} |-> Cardinality({i \in used : rng(i) = k})]

\* The library as opened by ELFRemove.__init__: every section found through
\* the section header table (index # -1), version counters 0.
Link(lib, hash_nb, nc) ==
    LET order   == DynsymOrder(lib)
        strs    == [i \in 1..Len(order) |-> order[i].name] \o lib.needed
                   \o <<lib.soname, lib.vn_file>> \o lib.vna \o lib.vda
        bytes   == StringTable(strs)
        syms    == [i \in 1..Len(order) |-> SymEntry(order[i], bytes)]
        strtab  == StringTable([i \in 1..Len(lib.symtab) |-> lib.symtab[i].name])
        symtab  == [i \in 1..Len(lib.symtab) |-> SymEntry(lib.symtab[i], strtab)]
        reldyn  == RelSection(lib.reldyn, order)
        relplt  == RelSection(lib.relplt, order)
        verneed == <<[vn_file |-> FindStr(bytes, lib.vn_file),
                      aux |-> [i \in 1..Len(lib.vna) |-> FindStr(bytes, lib.vna[i])]]>>
        verdef  == <<[aux |-> [i \in 1..Len(lib.vda) |-> FindStr(bytes, lib.vda[i])]]>>
        dynamic == [i \in 1..Len(lib.needed) |->
                       [d_tag |-> "DT_NEEDED", d_val |-> FindStr(bytes, lib.needed[i])]]
                   \o <<[d_tag |-> "DT_SONAME", d_val |-> FindStr(bytes, lib.soname)],
                        [d_tag |-> "DT_STRSZ", d_val |-> Len(bytes)],
                        [d_tag |-> "DT_RELASZ", d_val |-> reldyn.sh_size],
                        [d_tag |-> "DT_RELACOUNT",
                         d_val |-> Cardinality({i \in 1..Len(reldyn.ents) :
                                       reldyn.ents[i].type = R_X86_64_RELATIVE})]>>
    IN  [need_continuous |-> nc,
         shdrs   |-> TRUE,
         dynsym  |-> [index |-> 1, version |-> 0, ents |-> syms,
                      sh_size |-> Len(syms) * SymEntSize,
                      sh_info |-> FirstNonLocal(syms)],
         symtab  |-> [present |-> Len(symtab) > 0, index |-> 2, version |-> 0,
                      ents |-> symtab, sh_size |-> Len(symtab) * SymEntSize,
                      sh_info |-> FirstNonLocal(symtab)],
         strtab  |-> strtab,
         dynstr  |-> [bytes |-> bytes, sh_size |-> Len(bytes)],
         ranges  |-> _parse_dynstr(dynamic, syms, verdef, verneed, bytes),
         dynamic |-> dynamic,
         gnu_hash |-> LinkGnuHash(order, 1 + Len(lib.undef), lib.gnu_nbuckets),
         elf_hash |-> [words |-> HashWords(LinkElfHash(order, hash_nb)),
                       sh_size |-> (2 + hash_nb + Len(order)) * HashWordSize],
         gnu_version |-> [vals |-> [i \in 1..Len(order) |-> i - 1],
                          sh_size |-> Len(order) * VersionEntSize],
         verneed |-> verneed,
         verdef  |-> verdef,
         rel_dyn |-> reldyn,
         rel_plt |-> relplt,
         text    |-> lib.text,
         cc      |-> {}]

(***************************************************************************)
(* Relocation compactor                                                    *)
(***************************************************************************)

\* A relocation as pyelftools holds it: entry['r_info'] (its symbol part is
\* sym) and the separately stored entry['r_info_sym'].
ReadReloc(d) ==
    [r_offset |-> d.r_offset, r_info_sym |-> d.sym, sym |-> d.sym,
     type |-> d.type, r_addend |-> d.r_addend]

\* struct.pack of r_offset, r_info, r_addend
PackReloc(m) ==
    [r_offset |-> m.r_offset, sym |-> m.sym, type |-> m.type, r_addend |-> m.r_addend]

\* section.iter_relocations(): the first _size / entsize entries on disk
iter_relocations(sec) ==
    [i \in 1..(sec._size \div RelaEntSize) |-> ReadReloc(sec.ents[i])]

\* the walk of _edit_rel_sect from cur_idx; st = [reloc_list, sort_keys, removed]
RECURSIVE EditRelWalk(_, _, _, _, _, _)
EditRelWalk(st, cur_idx, sym_nr, sym_addr, push, is_symtab) ==
    IF cur_idx >= Len(st.reloc_list) THEN st
    ELSE LET reloc == At(st.reloc_list, cur_idx)
             r_info_sym == reloc.r_info_sym
         IN  IF (~is_symtab /\ r_info_sym = sym_nr)
                \/ (reloc.r_addend = sym_addr /\ sym_addr > 0)
             THEN IF push
                  THEN EditRelWalk([reloc_list |-> Pop(st.reloc_list, cur_idx),
                                    sort_keys  |-> Pop(st.sort_keys, cur_idx),
                                    removed    |-> st.removed + 1],
                                   cur_idx, sym_nr, sym_addr, push, is_symtab)
                  ELSE EditRelWalk([st EXCEPT !.reloc_list =
                                       Put(st.reloc_list, cur_idx,
                                           [reloc EXCEPT !.r_info_sym = 0, !.r_addend = 0])],
                                   cur_idx + 1, sym_nr, sym_addr, push, is_symtab)
             ELSE IF is_symtab /\ (reloc.r_addend > sym_addr \/ r_info_sym > 0)
             THEN st
             ELSE IF r_info_sym > sym_nr
             THEN st
             ELSE IF ~is_symtab /\ push
             THEN EditRelWalk(st, bisect_left(st.sort_keys, <<sym_nr, 0>>, cur_idx),
                              sym_nr, sym_addr, push, is_symtab)
             ELSE EditRelWalk(st, cur_idx + 1, sym_nr, sym_addr, push, is_symtab)

\* _edit_rel_sect: st with the entries matching the symbol removed (push) or
\* zeroed; exc is set when sort_keys[cur_idx] is read past the end of the list
_edit_rel_sect(st, sym_nr, sym_addr, push, is_symtab) ==
    LET first == bisect_left(st.sort_keys, <<0, sym_addr>>, 0)
    IN  IF ~is_symtab /\ first >= Len(st.sort_keys)
        THEN [st EXCEPT !.exc = "IndexError"]
        ELSE LET cur_idx == IF ~is_symtab /\ At(st.sort_keys, first)[2] # sym_addr
                            THEN bisect_left(st.sort_keys, <<sym_nr, 0>>, first)
                            ELSE first
                 w == EditRelWalk([reloc_list |-> st.reloc_list,
                                   sort_keys |-> st.sort_keys, removed |-> 0],
                                  cur_idx, sym_nr, sym_addr, push, is_symtab)
             IN  [st EXCEPT !.reloc_list = w.reloc_list, !.sort_keys = w.sort_keys,
                            !.removed = st.removed + w.removed]

\* the loop over symbol_list of _batch_remove_relocs (lines 440-454);
\* st = [reloc_list, sort_keys, removed, sym_nrs, sym_addrs, exc]
RECURSIVE RemoveRelocsLoop(_, _, _, _, _)
RemoveRelocsLoop(st, symbol_list, k, push, is_symtab) ==
    IF k > Len(symbol_list) \/ st.exc # "" THEN st
    ELSE LET symbol == symbol_list[k]
         IN  IF symbol.value \notin st.sym_addrs
                /\ (is_symtab \/ symbol.index \notin st.sym_nrs)
             THEN RemoveRelocsLoop(st, symbol_list, k + 1, push, is_symtab)
             ELSE LET e == _edit_rel_sect(st, symbol.index, symbol.value, push, is_symtab)
                  IN  RemoveRelocsLoop(
                          [e EXCEPT !.sym_nrs = IF is_symtab THEN @ ELSE @ \ {symbol.index},
                                    !.sym_addrs = @ \ {symbol.value}],
                          symbol_list, k + 1, push, is_symtab)

\* a variant of the fix-up loop below that renumbers nothing, against which
\* C7 is checked
NoFixup(reloc_list, symbol_list, cur_symbol_idx, cur_reloc_idx, num, push) == reloc_list

\* the index fix-up loop of _batch_remove_relocs (lines 469-511)
RECURSIVE FixupLoop(_, _, _, _, _, _)
FixupLoop(reloc_list, symbol_list, cur_symbol_idx, cur_reloc_idx, num, push) ==
    IF cur_reloc_idx < 0 THEN reloc_list
    ELSE LET reloc == At(reloc_list, cur_reloc_idx)
             r_info_sym == reloc.r_info_sym
             cur_symbol == At(symbol_list, cur_symbol_idx)
             new_sym == IF r_info_sym = 0 THEN 0 ELSE r_info_sym - num
             fixed == Put(reloc_list, cur_reloc_idx,
                          [reloc EXCEPT !.sym = new_sym, !.r_info_sym = new_sym])
         IN  IF r_info_sym = 0 /\ push THEN reloc_list
             ELSE IF r_info_sym # 0 /\ r_info_sym <= cur_symbol.index
             THEN IF num - 1 = 0 THEN reloc_list
                  ELSE FixupLoop(reloc_list, symbol_list, cur_symbol_idx + 1,
                                 cur_reloc_idx, num - 1, push)
             ELSE FixupLoop(fixed, symbol_list, cur_symbol_idx, cur_reloc_idx - 1,
                            num, push)

\* a variant of the restoring step below that writes the entries in sorted
\* order, against which C9 is checked
KeepSortedOrder(orig_reloc_list, reloc_list) == reloc_list

\* restoring the original order (lines 516-523): for each original entry the
\* last entry of reloc_list with its r_offset, if there is one
RestoreOrder(orig_reloc_list, reloc_list) ==
    LET hit(i) == {j \in 1..Len(reloc_list) :
                      reloc_list[j].r_offset = orig_reloc_list[i].r_offset}
        kept   == {i \in 1..Len(orig_reloc_list) : hit(i) # {}}
        pick(i) == reloc_list[CHOOSE j \in hit(i) : \A l \in hit(i) : l <= j]
        pos(n)  == CHOOSE i \in kept : Cardinality({l \in kept : l < i}) = n - 1
    IN  [n \in 1..Cardinality(kept) |-> pick(pos(n))]

\* A batch in progress: the file and handles (elf) and the exception that
\* ended the batch, if any ("" while none was raised).
Raise(S, e) == [S EXCEPT !.exc = e]

\* _write_dynamic_tag: the first tag named target is set to f(old value)
FirstTag(dynamic, target) ==
    LET found == {i \in 1..Len(dynamic) : dynamic[i].d_tag = target}
    IN  IF found = {} THEN 0 ELSE CHOOSE i \in found : \A j \in found : i <= j

\* a variant of _write_dynamic_tag below that always subtracts the value from
\* the tag, against which C21 is checked
WriteTagBySubtracting(dynamic, target, value, subtract_from_orig) ==
    LET i == FirstTag(dynamic, target)
    IN  IF i = 0 THEN dynamic
        ELSE [dynamic EXCEPT ![i].d_val = @ - value]

_write_dynamic_tag(dynamic, target, value, subtract_from_orig) ==
    LET i == FirstTag(dynamic, target)
    IN  IF i = 0 THEN dynamic
        ELSE [dynamic EXCEPT ![i].d_val = IF subtract_from_orig THEN @ - value ELSE value]

\* bytes written over a region of the file that starts where the region starts
Overwrite(region, written) ==
    [i \in 1..Max2(Len(region), Len(written)) |->
        IF i <= Len(written) THEN written[i] ELSE region[i]]

\* lines 427-430: the relocations sorted by (r_info_sym, r_addend), with the
\* sort keys and the sets of symbol numbers and addends that occur
SortedRelocState(orig_reloc_list, keys, perm) ==
    [reloc_list |-> [i \in 1..Len(perm) |-> orig_reloc_list[perm[i]]],
     sort_keys  |-> [i \in 1..Len(perm) |-> keys[perm[i]]],
     removed    |-> 0,
     sym_nrs    |-> {keys[i][1] : i \in 1..Len(keys)},
     sym_addrs  |-> {keys[i][2] : i \in 1..Len(keys)},
     exc        |-> ""]

RelocKeys(orig_reloc_list) ==
    [i \in 1..Len(orig_reloc_list) |->
        <<orig_reloc_list[i].r_info_sym, orig_reloc_list[i].r_addend>>]

SortRelocs(orig_reloc_list, keys) ==
    SortedRelocState(orig_reloc_list, keys, SortPerm(keys))

\* a variant of the fill below that zeroes the freed slots whether or not the
\* relocations are to stay continuous, against which C12 is checked
FillWithZeros(nc, removed, relocs_bytes) == Rep(removed, ZeroRel)

\* lines 543-547: what is written behind the surviving entries
FillBytes(nc, removed, relocs_bytes) ==
    IF nc THEN Rep(removed, relocs_bytes[Len(relocs_bytes)])
    ELSE Rep(removed, ZeroRel)

\* lines 525-575 for a section built from the dynamic segment (index -1, no
\* .dynamic section found): the entries are written, _set_section_attribute
\* returns at line 325, _size shrinks by amount (0 with
\* need_continuous_relocations), and with push _write_dynamic_tag reads
\* self._dynamic.section of None at line 383
WriteSyntheticRelocs(S, secname, push, ents, amount) ==
    IF push
    THEN Raise([S EXCEPT !.elf[secname].ents = ents, !.elf[secname]._size = @ - amount],
               "AttributeError")
    ELSE [S EXCEPT !.elf[secname].ents = ents, !.elf[secname]._size = @ - amount]

\* lines 525-575: the list is written back over the section, the freed tail
\* is filled, and the section size and the dynamic tags are adjusted
WriteRelocs(S, secname, push, removed, reloc_list) ==
    LET sec  == S.elf[secname]
        nc   == S.elf.need_continuous
        relocs_bytes == [i \in 1..Len(reloc_list) |-> PackReloc(reloc_list[i])]
        ents == Overwrite(sec.ents, relocs_bytes \o FillBytes(nc, removed, relocs_bytes))
        amount == RelaEntSize * removed
        relacount == Cardinality({i \in 1..Len(reloc_list) :
                                     reloc_list[i].type = R_X86_64_RELATIVE})
        dyn1 == IF push /\ ~nc
                THEN _write_dynamic_tag(S.elf.dynamic, "DT_RELASZ", amount, TRUE)
                ELSE S.elf.dynamic
        dyn2 == IF push THEN _write_dynamic_tag(dyn1, "DT_RELACOUNT", relacount, FALSE)
                ELSE dyn1
    IN  IF nc /\ Len(reloc_list) = 0 THEN Raise(S, "IndexError")
        ELSE IF ~S.elf.shdrs
        THEN WriteSyntheticRelocs(S, secname, push, ents, IF nc THEN 0 ELSE amount)
        ELSE IF ~nc /\ sec.sh_size < amount
        THEN Raise([S EXCEPT !.elf[secname].ents = ents], "SizeBroken")
        ELSE [S EXCEPT !.elf[secname] =
                           [sec EXCEPT !.ents = ents,
                                       !.sh_size = IF nc THEN @ ELSE @ - amount,
                                       !._size = IF nc THEN @ ELSE @ - amount],
                       !.elf.dynamic = dyn2]

\* lines 456-523: the surviving entries are renumbered (not in the pass for
\* the static table) and put back in their original order
FixRelocs(S, symbol_list, secname, push, is_symtab, orig_reloc_list, st1) ==
    IF st1.exc # "" THEN Raise(S, st1.exc)
    ELSE WriteRelocs(S, secname, push, st1.removed,
                     RestoreOrder(orig_reloc_list,
                                  IF is_symtab THEN st1.reloc_list
                                  ELSE FixupLoop(st1.reloc_list, symbol_list, 0,
                                                 Len(st1.reloc_list) - 1,
                                                 Len(symbol_list), push)))

\* lines 427-454: the relocations are read, sorted and searched for every
\* symbol of the list
RemoveRelocs(S, symbol_list, secname, push, is_symtab, orig_reloc_list) ==
    IF Len(orig_reloc_list) = 0 THEN Raise(S, "ValueError")
    ELSE FixRelocs(S, symbol_list, secname, push, is_symtab, orig_reloc_list,
                   RemoveRelocsLoop(SortRelocs(orig_reloc_list, RelocKeys(orig_reloc_list)),
                                    symbol_list, 1, push, is_symtab))

\* _batch_remove_relocs on the relocation section elf[secname]
_batch_remove_relocs(S, symbol_list, secname, push, is_symtab) ==
    IF S.exc # "" \/ ~S.elf[secname].present THEN S
    ELSE RemoveRelocs(S, symbol_list, secname, push, is_symtab,
                      iter_relocations(S.elf[secname]))

(***************************************************************************)
(* .dynstr compactor                                                       *)
(***************************************************************************)

\* sorted(d.keys()) for a set of pairs
RECURSIVE SortedPairs(_)
SortedPairs(P) ==
    IF P = {} THEN <<>>
    ELSE LET m == CHOOSE x \in P : \A y \in P : PairLE(x, y)
         IN  <<m>> \o SortedPairs(P \ {m})

\* d[k] -= 1 on a defaultdict(int), the key deleted when it reaches 0
DecRange(ranges, k) ==
    LET cnt == IF k \in DOMAIN ranges THEN ranges[k] - 1 ELSE -1
    IN  IF cnt = 0 THEN [x \in (DOMAIN ranges) \ {k} |-> ranges[x]]
        ELSE [x \in (DOMAIN ranges) \cup {k} |-> IF x = k THEN cnt ELSE ranges[x]]

\* lines 1003-1007: the ranges of the removed symbols' names are released
RECURSIVE ReleaseRanges(_, _, _, _)
ReleaseRanges(ranges, bytes, removed_symbols, k) ==
    IF k > Len(removed_symbols) THEN ranges
    ELSE ReleaseRanges(DecRange(ranges, _get_string_range(bytes, removed_symbols[k].name_offset)),
                       bytes, removed_symbols, k + 1)

\* m[k] = v on a dict
MapPut(m, k, v) == [x \in (DOMAIN m) \cup {k} |-> IF x = k THEN v ELSE m[x]]

\* a variant of the layout loop below that gives every range a slot of its
\* own, a tail of the preceding range included, against which C26 is checked
RECURSIVE LayoutWithoutSharing(_, _, _, _)
LayoutWithoutSharing(st, sorted, bytes, k) ==
    IF k > Len(sorted) THEN st
    ELSE LET start == sorted[k][1]
             length == sorted[k][2] - start
         IN  LayoutWithoutSharing(
                 [index_map  |-> MapPut(st.index_map, start, st.last_end + 1),
                  out_bytes  |-> st.out_bytes
                                 \o [i \in 1..(length + 1) |-> ByteAt(bytes, start + i - 1)],
                  last_start |-> st.last_end + 1,
                  last_end   |-> st.last_end + 1 + length,
                  exc        |-> ""],
                 sorted, bytes, k + 1)

\* lines 1016-1039: st = [index_map, out_bytes, last_start, last_end, exc];
\* sorted[k] is the range looked at, sorted[k - 1] the one before it
RECURSIVE LayoutLoop(_, _, _, _)
LayoutLoop(st, sorted, bytes, k) ==
    IF k > Len(sorted) \/ st.exc # "" THEN st
    ELSE LET start == sorted[k][1]
             end   == sorted[k][2]
             prev_start == sorted[k - 1][1]
             prev_end   == sorted[k - 1][2]
             target_start == st.last_end + 1
             length == end - start
         IN  IF start \in DOMAIN st.index_map
             THEN LayoutLoop(st, sorted, bytes, k + 1)
             ELSE IF start < prev_end
             THEN IF prev_end # end THEN [st EXCEPT !.exc = "AssertionError"]
                  ELSE LayoutLoop(
                           [st EXCEPT !.last_start = @ + (start - prev_start),
                                      !.index_map = MapPut(@, start,
                                                       st.last_start + (start - prev_start))],
                           sorted, bytes, k + 1)
             ELSE LayoutLoop(
                      [index_map  |-> MapPut(st.index_map, start, target_start),
                       out_bytes  |-> st.out_bytes
                                      \o [i \in 1..(length + 1) |-> ByteAt(bytes, start + i - 1)],
                       last_start |-> target_start,
                       last_end   |-> target_start + length,
                       exc        |-> ""],
                      sorted, bytes, k + 1)

\* _build_new_dynstr: [ranges, out_bytes, index_map, exc]
_build_new_dynstr(ranges0, bytes, removed_symbols) ==
    LET ranges == ReleaseRanges(ranges0, bytes, removed_symbols, 1)
        sorted == SortedPairs(DOMAIN ranges)
        first_start == sorted[1][1]
        first_end   == sorted[1][2]
        st == LayoutLoop([index_map |-> [x \in {first_start} |-> first_start],
                          out_bytes |-> <<0>>,
                          last_start |-> first_start, last_end |-> first_end,
                          exc |-> ""],
                         sorted, bytes, 2)
    IN  IF Len(sorted) = 0
        THEN [ranges |-> ranges, out_bytes |-> <<>>, index_map |-> <<>>, exc |-> "IndexError"]
        ELSE [ranges |-> ranges, out_bytes |-> st.out_bytes,
              index_map |-> st.index_map, exc |-> st.exc]

\* _fix_version_structs: every name offset is replaced by index_map[offset];
\* names lists the offsets in the order the loop reads them
VersionNames(vers, with_file) ==
    LET RECURSIVE N(_)
        N(k) == IF k > Len(vers) THEN <<>>
                ELSE (IF with_file THEN <<vers[k].vn_file>> ELSE <<>>)
                     \o vers[k].aux \o N(k + 1)
    IN  N(1)

_fix_version_structs(vers, with_file, index_map) ==
    [k \in 1..Len(vers) |->
        IF with_file
        THEN [vn_file |-> index_map[vers[k].vn_file],
              aux |-> [i \in 1..Len(vers[k].aux) |-> index_map[vers[k].aux[i]]]]
        ELSE [aux |-> [i \in 1..Len(vers[k].aux) |-> index_map[vers[k].aux[i]]]]]

\* whether every offset of the list is a key of index_map
AllMapped(offs, index_map) == \A i \in 1..Len(offs) : offs[i] \in DOMAIN index_map

\* the first n entries of a symbol table region (section.iter_symbols())
iter_symbols(sec) == SubSeq(sec.ents, 1, sec.sh_size \div SymEntSize)

\* _set_section_attribute for a section header that is part of the file:
\* TRUE when the write is refused ('Size of section broken!')
SizeBroken(old_value, value) == old_value < value

\* a variant of RewriteStringOffsets below that writes the new string table
\* and its size but leaves every name offset as it is, against which C5 is
\* checked
WriteStringTableOnly(elf, ranges, index_map, new_bytes) ==
    [elf |-> [elf EXCEPT !.ranges = ranges,
                         !.dynstr.bytes =
                             Overwrite(Overwrite(elf.dynstr.bytes, Rep(elf.dynstr.sh_size, 0)),
                                       new_bytes),
                         !.dynstr.sh_size = Len(new_bytes)],
     exc |-> ""]

\* lines 1081-1114: the name offsets of the dynamic symbols, of the dynamic
\* tags and of the version structures are replaced by index_map[offset], then
\* the new string table is written over the zeroed old one
RewriteStringOffsets(elf, ranges, index_map, new_bytes) ==
    LET syms == iter_symbols(elf.dynsym)
        bad  == {i \in 1..Len(syms) : syms[i].st_name \notin DOMAIN index_map}
        nfix == IF bad = {} THEN Len(syms)
                ELSE (CHOOSE i \in bad : \A j \in bad : i <= j) - 1
        e1   == [elf EXCEPT !.ranges = ranges,
                            !.dynsym.ents =
                                [i \in 1..Len(elf.dynsym.ents) |->
                                    IF i <= nfix
                                    THEN [elf.dynsym.ents[i] EXCEPT !.st_name = index_map[@]]
                                    ELSE elf.dynsym.ents[i]]]
        tagsok == \A i \in 1..Len(elf.dynamic) :
                     elf.dynamic[i].d_tag \in DynstrTags
                         => elf.dynamic[i].d_val \in DOMAIN index_map
        e2   == [e1 EXCEPT !.dynamic =
                               [i \in 1..Len(elf.dynamic) |->
                                   IF elf.dynamic[i].d_tag \in DynstrTags
                                   THEN [elf.dynamic[i] EXCEPT !.d_val = index_map[@]]
                                   ELSE elf.dynamic[i]]]
        e3   == [e2 EXCEPT !.verneed = _fix_version_structs(elf.verneed, TRUE, index_map)]
        e5   == [e3 EXCEPT !.verdef = _fix_version_structs(elf.verdef, FALSE, index_map),
                           !.dynstr.bytes =
                               Overwrite(Overwrite(elf.dynstr.bytes, Rep(elf.dynstr.sh_size, 0)),
                                         new_bytes)]
    IN  IF bad # {} \/ ~tagsok THEN [elf |-> e1, exc |-> "KeyError"]
        ELSE IF ~AllMapped(VersionNames(elf.verneed, TRUE), index_map)
        THEN [elf |-> e2, exc |-> "KeyError"]
        ELSE IF ~AllMapped(VersionNames(elf.verdef, FALSE), index_map)
        THEN [elf |-> e3, exc |-> "KeyError"]
        ELSE IF SizeBroken(elf.dynstr.sh_size, Len(new_bytes))
        THEN [elf |-> e5, exc |-> "SizeBroken"]
        ELSE [elf |-> [e5 EXCEPT !.dynstr.sh_size = Len(new_bytes),
                                 !.dynamic = _write_dynamic_tag(@, "DT_STRSZ",
                                                                Len(new_bytes), FALSE)],
              exc |-> ""]

\* lines 1076-1079: b is what _build_new_dynstr returned or raised
CompactWith(elf, b) ==
    IF b.exc # "" THEN [elf |-> [elf EXCEPT !.ranges = b.ranges], exc |-> b.exc]
    ELSE RewriteStringOffsets(elf, b.ranges, b.index_map, b.out_bytes)

\* _compact_dynstr
_compact_dynstr(S, removed_symbols) ==
    IF S.exc # "" \/ ~S.elf.shdrs THEN S
    ELSE CompactWith(S.elf,
                     _build_new_dynstr(S.elf.ranges, S.elf.dynstr.bytes, removed_symbols))

(***************************************************************************)
(* Hash rebuilders and version table compactor                             *)
(***************************************************************************)

NBucketOptions ==
    <<1, 3, 17, 37, 67, 97, 131, 197, 263, 521, 1031, 2053, 4099,
      8209, 16411, 32771, 65537, 131101, 262147>>

\* options[bisect.bisect(options, n_hashes) - 1], Python's options[-1] being
\* the last element
_calc_nbuckets(n_hashes) ==
    LET ins_point == Cardinality({i \in 1..Len(NBucketOptions) : NBucketOptions[i] <= n_hashes})
    IN  IF ins_point = 0 THEN NBucketOptions[Len(NBucketOptions)]
        ELSE NBucketOptions[ins_point]

\* d.get(k, 0) on a dict
Get0(d, k) == IF k \in DOMAIN d THEN d[k] ELSE 0

\* a variant of the insertion below that does not link a symbol to the one
\* that headed its bucket before it, against which C3 is checked
RECURSIVE ElfHashInsertUnlinked(_, _, _, _)
ElfHashInsertUnlinked(st, names, nbuckets, idx) ==
    IF idx >= Len(names) THEN st
    ELSE LET bucket == _elfhash(At(names, idx)) % nbuckets
         IN  ElfHashInsertUnlinked([new_chains  |-> MapPut(st.new_chains, idx, 0),
                                    new_buckets |-> MapPut(st.new_buckets, bucket, idx)],
                                   names, nbuckets, idx + 1)

\* lines 760-766: st = [new_buckets, new_chains]
RECURSIVE ElfHashInsert(_, _, _, _)
ElfHashInsert(st, names, nbuckets, idx) ==
    IF idx >= Len(names) THEN st
    ELSE LET bucket == _elfhash(At(names, idx)) % nbuckets
         IN  ElfHashInsert([new_chains  |-> MapPut(st.new_chains, idx,
                                                   Get0(st.new_buckets, bucket)),
                            new_buckets |-> MapPut(st.new_buckets, bucket, idx)],
                           names, nbuckets, idx + 1)

\* lines 768-791: the old table is zeroed, the new one written over it and
\* the section size set; st = [new_buckets, new_chains]
WriteElfHash(elf, nbuckets, nchains, st) ==
    LET old   == elf.elf_hash
        words == Overwrite(Overwrite(old.words, Rep(old.sh_size \div HashWordSize, 0)),
                           <<nbuckets, nchains>>
                           \o [i \in 1..nbuckets |-> Get0(st.new_buckets, i - 1)]
                           \o [i \in 1..nchains |-> Get0(st.new_chains, i - 1)])
        size  == (2 + nchains + nbuckets) * HashWordSize
    IN  IF SizeBroken(old.sh_size, size)
        THEN [elf |-> [elf EXCEPT !.elf_hash.words = words], exc |-> "SizeBroken"]
        ELSE [elf |-> [elf EXCEPT !.elf_hash = [words |-> words, sh_size |-> size]],
              exc |-> ""]

\* the names of the dynamic symbols, read through the string table
DynsymNames(dynstr_bytes, syms) ==
    [i \in 1..Len(syms) |-> CStr(dynstr_bytes, syms[i].st_name)]

\* lines 752-766: every symbol is hashed into its bucket
FillElfHash(elf, nbuckets, nchains) ==
    WriteElfHash(elf, nbuckets, nchains,
                 ElfHashInsert([new_buckets |-> <<>>, new_chains |-> <<>>],
                               DynsymNames(elf.dynstr.bytes, iter_symbols(elf.dynsym)),
                               nbuckets, 0))

\* lines 743-750: nchains is the old count less the removed symbols
RebuildElfHash(elf, nchains) == FillElfHash(elf, _calc_nbuckets(nchains), nchains)

\* _recreate_elf_hash
_recreate_elf_hash(S, n_removed_syms) ==
    IF S.exc # "" THEN S
    ELSE RebuildElfHash(S.elf, S.elf.elf_hash.words[2] - n_removed_syms)

\* a variant of the pops below that pops the last entries instead of those at
\* the symbols' indices, against which C4 is checked
PopLast(l, symbol_list, k) == SubSeq(l, 1, Len(l) - Len(symbol_list))

\* versions.pop(symbol.index) for each symbol of the list, in order
RECURSIVE PopAll(_, _, _)
PopAll(l, symbol_list, k) ==
    IF k > Len(symbol_list) THEN l
    ELSE PopAll(Pop(l, symbol_list[k].index), symbol_list, k + 1)

\* whether every pop of PopAll finds its index inside the list
PopsInRange(n, symbol_list) ==
    \A k \in 1..Len(symbol_list) : symbol_list[k].index < n - (k - 1)

\* _batch_remove_gnu_versions
_batch_remove_gnu_versions(S, symbol_list, orig_dynsym_size) ==
    LET elf == S.elf
        sec == elf.gnu_version
        versions == PopAll(SubSeq(sec.vals, 1, orig_dynsym_size), symbol_list, 1)
        vals == Overwrite(sec.vals,
                          versions \o Rep(orig_dynsym_size - Len(versions), 0))
        amount == VersionEntSize * Len(symbol_list)
    IN  IF S.exc # "" THEN S
        ELSE IF ~PopsInRange(orig_dynsym_size, symbol_list) THEN Raise(S, "IndexError")
        ELSE IF SizeBroken(sec.sh_size, amount)
        THEN [elf |-> [elf EXCEPT !.gnu_version.vals = vals], exc |-> "SizeBroken"]
        ELSE [elf |-> [elf EXCEPT !.gnu_version =
                                      [vals |-> vals, sh_size |-> sec.sh_size - amount]],
              exc |-> ""]

\* _edit_gnu_hashtable on params = [nbuckets, symoffset, buckets, chains, exc]
_edit_gnu_hashtable(params, dynsym_nr, func_hash) ==
    LET sym_nr == dynsym_nr - params.symoffset
        bucket_hash == At(params.chains, sym_nr)
        chains == Pop(params.chains, sym_nr)
        bucket == WordMod(func_hash, params.nbuckets)
    IN  IF sym_nr < 0 THEN [params EXCEPT !.exc = "OutOfBounds"]
        ELSE IF sym_nr >= Len(params.chains) THEN [params EXCEPT !.exc = "IndexError"]
        ELSE IF ClearBit0(bucket_hash) # ClearBit0(func_hash)
        THEN [params EXCEPT !.exc = "HashMismatch"]
        ELSE IF Bit0(bucket_hash) = 1
        THEN IF sym_nr # 0
             THEN IF Bit0(At(chains, sym_nr - 1)) = 1
                  THEN [params EXCEPT !.chains = chains,
                                      !.buckets = Put(@, bucket, 0)]
                  ELSE [params EXCEPT !.chains =
                                          Put(chains, sym_nr - 1,
                                              SetBit0(At(chains, sym_nr - 1)))]
             ELSE [params EXCEPT !.chains = chains, !.buckets = Put(@, bucket, 0)]
        ELSE [params EXCEPT !.chains = chains]

\* lines 841-844
RECURSIVE EditGnuLoop(_, _, _, _)
EditGnuLoop(params, defined_symbols, func_hashes, k) ==
    IF k > Len(defined_symbols) \/ params.exc # "" THEN params
    ELSE EditGnuLoop(_edit_gnu_hashtable(params, defined_symbols[k].index, func_hashes[k]),
                     defined_symbols, func_hashes, k + 1)

\* the inner while of lines 855-857: [cur_sym, num] after skipping the symbols
\* whose bucket is >= max_idx
RECURSIVE SkipLaterBuckets(_, _, _, _)
SkipLaterBuckets(func_buckets, cur_sym, num, max_idx) ==
    IF num > 0 /\ At(func_buckets, cur_sym) >= max_idx
    THEN SkipLaterBuckets(func_buckets, cur_sym + 1, num - 1, max_idx)
    ELSE [cur_sym |-> cur_sym, num |-> num]

\* a variant of the bucket fix-up below that leaves the bucket start indices
\* as they are, against which C2 is checked to depend on the fix-up
KeepBuckets(buckets, func_buckets, max_idx, cur_sym, num) == buckets

\* a variant of the bucket fix-up below that lowers every bucket start by the
\* number of removed symbols in that bucket or a later one, against which
\* C24 is checked
FixBucketsCountingLater(buckets, func_buckets, max_idx, cur_sym, num) ==
    [i \in 1..Len(buckets) |->
        Max2(0, buckets[i] - Cardinality({s \in 1..Len(func_buckets) :
                                             func_buckets[s] >= i - 1}))]

\* lines 851-861: the bucket start indices after the chain edits
RECURSIVE FixBuckets(_, _, _, _, _)
FixBuckets(buckets, func_buckets, max_idx, cur_sym, num) ==
    IF max_idx < 0 THEN buckets
    ELSE LET sk == SkipLaterBuckets(func_buckets, cur_sym, num, max_idx)
         IN  IF sk.num = 0 THEN buckets
             ELSE FixBuckets(Put(buckets, max_idx, Max2(0, At(buckets, max_idx) - sk.num)),
                             func_buckets, max_idx - 1, sk.cur_sym, sk.num)

\* lines 865-868: trailing buckets that start at the end of the table are empty
\* (Python's buckets[-1] is the last bucket)
RECURSIVE ClearTrailing(_, _, _)
ClearTrailing(buckets, max_idx, limit) ==
    LET i == IF max_idx < 0 THEN Len(buckets) + max_idx ELSE max_idx
    IN  IF At(buckets, i) = limit
        THEN ClearTrailing(Put(buckets, i, 0), max_idx - 1, limit)
        ELSE buckets

\* whether the list of bucket numbers is in descending order
IsDescending(l) == \A i \in 1..(Len(l) - 1) : l[i] >= l[i + 1]

\* the symbols of the list that satisfy / do not satisfy the test for an
\* undefined symbol (lines 827-831), in list order
SelectSyms(symbol_list, symoffset, undef) ==
    SelectSeq(symbol_list,
              LAMBDA x : (x.value = 0 /\ x.size = 0 /\ x.index < symoffset) = undef)

\* a variant of ShiftBuckets below that leaves the bucket words as they are,
\* against which C23 is checked
ShiftNothing(buckets, n) == buckets

\* line 879: the bucket words are lowered by the number of removed symbols
\* that precede the hashed ones
ShiftBuckets(buckets, n) == [i \in 1..Len(buckets) |-> Max2(0, buckets[i] - n)]

\* lines 846-894: the buckets are fixed up and the table is written back
WriteGnuHash(S, dynsym_size, n_undef, n_defined, func_buckets, p1) ==
    LET sec == S.elf.gnu_hash
        nchains == dynsym_size - sec.symoffset
        buckets == ShiftBuckets(
                       ClearTrailing(FixBuckets(p1.buckets, func_buckets,
                                                sec.nbuckets - 1, 0, n_defined),
                                     sec.nbuckets - 1, dynsym_size - n_defined),
                       n_undef)
        chains == Overwrite(sec.chains,
                            p1.chains \o Rep(nchains - Len(p1.chains), ZeroWord))
        amount == n_defined * HashWordSize
        e1 == [S.elf EXCEPT !.gnu_hash.symoffset = @ - n_undef,
                            !.gnu_hash.buckets = buckets, !.gnu_hash.chains = chains]
    IN  IF p1.exc # "" THEN Raise(S, p1.exc)
        ELSE IF SizeBroken(sec.sh_size, amount) THEN [elf |-> e1, exc |-> "SizeBroken"]
        ELSE [elf |-> [e1 EXCEPT !.gnu_hash.sh_size = @ - amount], exc |-> ""]

\* lines 808-822: the table as read from the file
ReadGnuHash(sec, nchains) ==
    [nbuckets |-> sec.nbuckets, symoffset |-> sec.symoffset,
     buckets |-> sec.buckets, chains |-> SubSeq(sec.chains, 1, nchains),
     exc |-> ""]

\* lines 838-844: the hashed symbols are taken out of their chains
EditGnuHash(S, dynsym_size, n_undef, defined_symbols, func_hashes, func_buckets) ==
    IF ~IsDescending(func_buckets) THEN Raise(S, "NotSorted")
    ELSE WriteGnuHash(S, dynsym_size, n_undef, Len(defined_symbols), func_buckets,
                      EditGnuLoop(ReadGnuHash(S.elf.gnu_hash,
                                              dynsym_size - S.elf.gnu_hash.symoffset),
                                  defined_symbols, func_hashes, 1))

\* lines 834-837: the hash and the bucket of every hashed symbol
GnuHashes(defined_symbols) ==
    [i \in 1..Len(defined_symbols) |-> _gnuhash(defined_symbols[i].name)]

GnuBuckets(func_hashes, nbuckets) ==
    [i \in 1..Len(func_hashes) |-> WordMod(func_hashes[i], nbuckets)]

HashDefined(S, dynsym_size, n_undef, defined_symbols, func_hashes) ==
    EditGnuHash(S, dynsym_size, n_undef, defined_symbols, func_hashes,
                GnuBuckets(func_hashes, S.elf.gnu_hash.nbuckets))

\* _batch_remove_gnu_hashtable
_batch_remove_gnu_hashtable(S, symbol_list, dynsym_size) ==
    IF S.exc # "" THEN S
    ELSE HashDefined(S, dynsym_size,
                     Len(SelectSyms(symbol_list, S.elf.gnu_hash.symoffset, TRUE)),
                     SelectSyms(symbol_list, S.elf.gnu_hash.symoffset, FALSE),
                     GnuHashes(SelectSyms(symbol_list, S.elf.gnu_hash.symoffset, FALSE)))

(***************************************************************************)
(* Symbol collection and removal                                           *)
(***************************************************************************)

\* the elements of a set of integers in ascending order
RECURSIVE Ascending(_)
Ascending(P) ==
    IF P = {} THEN <<>>
    ELSE LET m == CHOOSE x \in P : \A y \in P : x <= y
         IN  <<m>> \o Ascending(P \ {m})

N_fini == <<95, 102, 105, 110, 105>>

_blacklist == {N_init, N_fini}

\* symbol.name: the string at st_name in the string table linked to the section
SymbolName(elf, secname, ent) ==
    CStr(IF secname = "dynsym" THEN elf.dynstr.bytes ELSE elf.strtab, ent.st_name)

SymbolWrapper(name, index, name_offset, value, size, sec_version) ==
    [name |-> name, index |-> index, name_offset |-> name_offset,
     value |-> value, size |-> size, sec_version |-> sec_version]

\* the SymbolWrapper of each table index of the set, in table order
WrapSymbols(elf, secname, found) ==
    LET syms == iter_symbols(elf[secname])
        idxs == Ascending(found)
    IN  [k \in 1..Len(idxs) |->
            LET e == syms[idxs[k]]
            IN  SymbolWrapper(SymbolName(elf, secname, e), idxs[k] - 1, e.st_name,
                              e.st_value, e.st_size, elf[secname].version)]

\* a variant of collect_symbols_by_name below that keeps the matching entries
\* of every type, against which C17 is checked
CollectAnyType(elf, secname, symbol_list, complement) ==
    LET syms == iter_symbols(elf[secname])
    IN  WrapSymbols(elf, secname,
            {i \in 1..Len(syms) :
                /\ SymbolName(elf, secname, syms[i]) \notin _blacklist
                /\ (SymbolName(elf, secname, syms[i]) \in symbol_list) # complement})

collect_symbols_by_name(elf, secname, symbol_list, complement) ==
    LET syms == iter_symbols(elf[secname])
    IN  WrapSymbols(elf, secname,
            {i \in 1..Len(syms) :
                /\ SymbolName(elf, secname, syms[i]) \notin _blacklist
                /\ (SymbolName(elf, secname, syms[i]) \in symbol_list) # complement
                /\ syms[i].type = STT_FUNC})

collect_symbols_by_address(elf, secname, address_list, complement) ==
    LET syms == iter_symbols(elf[secname])
    IN  WrapSymbols(elf, secname,
            {i \in 1..Len(syms) :
                /\ SymbolName(elf, secname, syms[i]) \notin _blacklist
                /\ (syms[i].st_value \in address_list) # complement
                /\ syms[i].type = STT_FUNC})

\* a variant of _fix_sh_info below that counts the entries from 1, against
\* which C14 is checked
FirstNonLocalFromOne(section_entries) ==
    LET nl == {i \in 1..Len(section_entries) : section_entries[i].bind # STB_LOCAL}
    IN  IF nl = {} THEN 0 ELSE CHOOSE i \in nl : \A j \in nl : i <= j

\* _fix_sh_info: the index of the first entry whose binding is not local, 0
\* when there is none
_fix_sh_info(section_entries) ==
    LET nl == {i \in 1..Len(section_entries) : section_entries[i].bind # STB_LOCAL}
    IN  IF nl = {} THEN 0 ELSE (CHOOSE i \in nl : \A j \in nl : i <= j) - 1

\* sorted(collection, key=index) without reverse=True: a variant of the sort
\* below, against which C1 is checked to depend on the descending order
SortedByIndexAsc(collection) ==
    LET perm == SortPerm([i \in 1..Len(collection) |-> <<collection[i].index, 0>>])
    IN  [i \in 1..Len(collection) |-> collection[perm[i]]]

\* sorted(collection, reverse=True, key=index)
SortedByIndexDesc(collection) ==
    LET perm == SortPerm([i \in 1..Len(collection) |-> <<0 - collection[i].index, 0>>])
    IN  [i \in 1..Len(collection) |-> collection[perm[i]]]

\* the file offsets of size bytes written from offset start
ByteRange(start, size) == start..(start + size - 1)

\* lines 1154-1171; st = [section_entries, cc, exc]
RECURSIVE RemoveLoop(_, _, _, _, _)
RemoveLoop(st, sorted_list, version, overwrite, k) ==
    IF k > Len(sorted_list) \/ st.exc # "" THEN st
    ELSE LET symbol_t == sorted_list[k]
         IN  IF symbol_t.sec_version # version
             THEN [st EXCEPT !.exc = "StaleCollection"]
             ELSE IF symbol_t.index >= Len(st.section_entries)
             THEN [st EXCEPT !.exc = "IndexError"]
             ELSE RemoveLoop(
                      [section_entries |-> Pop(st.section_entries, symbol_t.index),
                       cc  |-> IF overwrite /\ symbol_t.value # 0 /\ symbol_t.size # 0
                               THEN st.cc \cup ByteRange(symbol_t.value, symbol_t.size)
                               ELSE st.cc,
                       exc |-> ""],
                      sorted_list, version, overwrite, k + 1)

\* line 1189: self.dynsym becomes the wrapper with the next version
AdvanceDynsym(S) ==
    IF S.exc = "" THEN [S EXCEPT !.elf.dynsym.version = @ + 1] ELSE S

\* lines 1188-1199: the string table, the plt relocations, the hash tables
\* and the version table follow a removal from .dynsym
DynsymCascade(S, sorted_list, original_num_entries) ==
    _batch_remove_gnu_hashtable(
        _batch_remove_gnu_versions(
            _recreate_elf_hash(
                _batch_remove_relocs(
                    _compact_dynstr(AdvanceDynsym(S), sorted_list),
                    sorted_list, "rel_plt", FALSE, FALSE),
                Len(sorted_list)),
            sorted_list, original_num_entries),
        sorted_list, original_num_entries)

\* lines 1181-1199
Cascade(e, secname, sorted_list, original_num_entries) ==
    IF secname = "dynsym"
    THEN DynsymCascade(_batch_remove_relocs([elf |-> e, exc |-> ""], sorted_list,
                                            "rel_dyn", TRUE, FALSE),
                       sorted_list, original_num_entries)
    ELSE _batch_remove_relocs([elf |-> e, exc |-> ""], sorted_list, "rel_dyn", TRUE, TRUE)

\* what a call of remove_from_section leaves: the file and handles, the
\* exception that ended it ("" when it returned), the return value and the
\* table region as written by line 1177
Outcome(S, removed, table) ==
    [elf |-> S.elf, exc |-> S.exc, removed |-> removed, table |-> table]

\* lines 1174-1199; st = [section_entries, cc, exc] is what the loop left
WriteTable(elf, secname, sorted_list, st) ==
    LET section == elf[secname]
        removed == Len(sorted_list)
        ents == Overwrite(section.ents, st.section_entries \o Rep(removed, ZeroSym))
        first_nonlocal == _fix_sh_info(st.section_entries)
        e1 == [elf EXCEPT !.cc = st.cc]
        e2 == [e1 EXCEPT ![secname].ents = ents]
        e3 == [e2 EXCEPT ![secname].sh_size = @ - removed * SymEntSize]
    IN  IF st.exc # ""
        THEN [elf |-> e1, exc |-> st.exc, removed |-> 0, table |-> section.ents]
        ELSE IF SizeBroken(section.sh_size, removed * SymEntSize)
        THEN [elf |-> e2, exc |-> "SizeBroken", removed |-> 0, table |-> ents]
        ELSE IF SizeBroken(section.sh_info, first_nonlocal)
        THEN [elf |-> e3, exc |-> "SizeBroken", removed |-> 0, table |-> ents]
        ELSE Outcome(Cascade([e3 EXCEPT ![secname].sh_info = first_nonlocal], secname,
                             sorted_list, section.sh_size \div SymEntSize),
                     removed, ents)

\* a variant of RemoveSynthetic below that pops the entries and writes the
\* table and the header fields as for a section of the file, against which
\* C28 is checked
RemoveSyntheticWriting(elf, secname, sorted_list) ==
    WriteTable(elf, secname, sorted_list,
               RemoveLoop([section_entries |->
                               SubSeq(elf[secname].ents, 1,
                                      elf[secname].sh_size \div SymEntSize),
                           cc |-> elf.cc, exc |-> ""],
                          sorted_list, elf[secname].version, FALSE, 1))

\* lines 1137-1199 for a table built from the dynamic segment (index -1):
\* the loop tests the versions and counts, nothing is popped, overwritten or
\* written, the header fields are not there to be set, and the tables that
\* follow the symbols are processed for the whole list. The libraries below
\* all have a .rela.dyn, whose pass ends such a call before the hash tables
\* and the version table are reached.
RemoveSynthetic(elf, secname, sorted_list) ==
    IF \E k \in 1..Len(sorted_list) : sorted_list[k].sec_version # elf[secname].version
    THEN [elf |-> elf, exc |-> "StaleCollection", removed |-> 0,
          table |-> elf[secname].ents]
    ELSE Outcome(Cascade(elf, secname, sorted_list, elf[secname].sh_size \div SymEntSize),
                 Len(sorted_list), elf[secname].ents)

\* lines 1137-1171
RemoveSorted(elf, secname, sorted_list, overwrite) ==
    IF elf[secname].index = -1
    THEN RemoveSynthetic(elf, secname, sorted_list)
    ELSE WriteTable(elf, secname, sorted_list,
                    RemoveLoop([section_entries |->
                                    SubSeq(elf[secname].ents, 1,
                                           elf[secname].sh_size \div SymEntSize),
                                cc |-> elf.cc, exc |-> ""],
                               sorted_list, elf[secname].version, overwrite, 1))

\* a variant of remove_from_section below that gives the section its next
\* version on an empty collection too, against which C18 is checked
RemoveEvenIfEmpty(elf, secname, collection, overwrite) ==
    IF secname = "symtab" /\ ~elf.symtab.present
    THEN [elf |-> elf, exc |-> "SectionNotAvailable", removed |-> 0, table |-> <<>>]
    ELSE IF Len(collection) = 0
    THEN [elf |-> [elf EXCEPT ![secname].version = @ + 1], exc |-> "",
          removed |-> 0, table |-> elf[secname].ents]
    ELSE RemoveSorted(elf, secname, SortedByIndexDesc(collection), overwrite)

\* remove_from_section on the table elf[secname]
remove_from_section(elf, secname, collection, overwrite) ==
    IF secname = "symtab" /\ ~elf.symtab.present
    THEN [elf |-> elf, exc |-> "SectionNotAvailable", removed |-> 0, table |-> <<>>]
    ELSE IF Len(collection) = 0
    THEN [elf |-> elf, exc |-> "", removed |-> 0, table |-> elf[secname].ents]
    ELSE RemoveSorted(elf, secname, SortedByIndexDesc(collection), overwrite)

\* lines 1290-1296: the bytes of the local functions are overwritten
OverwriteLocal(cc, local_functions) ==
    cc \cup UNION {ByteRange(f[1], f[2]) : f \in {g \in local_functions : g[2] # 0}}

(***************************************************************************)
(* The libraries the tool is run on                                        *)
(***************************************************************************)

N_helper == <<104, 101, 108, 112, 101, 114>>

\* addresses and sizes of the functions and objects of the libraries
Address == [init |-> 8, foo |-> 16, bar |-> 32, getline |-> 48, line |-> 64,
            tab |-> 96, helper |-> 112]

Size == [func |-> 4, tab |-> 24]

\* the p_vaddr of an executable segment that starts at file offset 0 but is
\* not loaded at address 0; no function lies below it
TextBase == Address.init

Func(n, a, b) == SymDesc(n, a, Size.func, b, STT_FUNC)

\* a library with an imported function, exported functions two of which share
\* a name tail, an exported table, pointers to functions in its data and a
\* static helper function
LibA ==
    [undef  |-> <<SymDesc(N_puts, 0, 0, STB_GLOBAL, STT_FUNC)>>,
     defd   |-> <<Func(N_foo, Address.foo, STB_GLOBAL), Func(N_bar, Address.bar, STB_GLOBAL),
                  Func(N_getline, Address.getline, STB_GLOBAL), Func(N_line, Address.line, STB_GLOBAL),
                  SymDesc(N_tab, Address.tab, Size.tab, STB_GLOBAL, STT_OBJECT)>>,
     gnu_nbuckets |-> 3, hash_nbuckets |-> 3,
     needed |-> <<N_libc>>, soname |-> N_libx, vn_file |-> N_libc,
     vna |-> <<N_V1>>, vda |-> <<N_libx, N_V2>>,
     reldyn |-> <<RelDesc(200, N_empty, R_X86_64_RELATIVE, Address.foo),
                  RelDesc(208, N_empty, R_X86_64_RELATIVE, Address.tab),
                  RelDesc(216, N_empty, R_X86_64_RELATIVE, Address.helper),
                  RelDesc(224, N_bar, R_X86_64_GLOB_DAT, 0),
                  RelDesc(232, N_getline, R_X86_64_64, 0)>>,
     relplt |-> <<RelDesc(300, N_puts, R_X86_64_JUMP_SLOT, 0),
                  RelDesc(308, N_foo, R_X86_64_JUMP_SLOT, 0),
                  RelDesc(316, N_line, R_X86_64_JUMP_SLOT, 0)>>,
     symtab |-> <<NullDesc, Func(N_helper, Address.helper, STB_LOCAL),
                  Func(N_foo, Address.foo, STB_GLOBAL)>>,
     text   |-> [p_vaddr |-> 0, p_offset |-> 0],
     local_functions |-> {<<Address.helper, Size.func>>}]

\* a library whose data holds pointers into its exported table at offsets
\* that equal the addresses of functions (tab + 32, puts + 112), that exports
\* _init, and whose executable segment is loaded above its place in the file
LibB ==
    [undef  |-> <<SymDesc(N_puts, 0, 0, STB_GLOBAL, STT_FUNC)>>,
     defd   |-> <<Func(N_foo, Address.foo, STB_GLOBAL), Func(N_bar, Address.bar, STB_GLOBAL),
                  SymDesc(N_tab, Address.tab, Size.tab, STB_GLOBAL, STT_OBJECT),
                  Func(N_init, Address.init, STB_GLOBAL)>>,
     gnu_nbuckets |-> 2, hash_nbuckets |-> 3,
     needed |-> <<N_libc, N_libm>>, soname |-> N_libx, vn_file |-> N_libc,
     vna |-> <<N_V1>>, vda |-> <<N_V2>>,
     reldyn |-> <<RelDesc(200, N_empty, R_X86_64_RELATIVE, Address.bar),
                  RelDesc(208, N_empty, R_X86_64_RELATIVE, Address.helper),
                  RelDesc(216, N_tab, R_X86_64_64, Address.bar),
                  RelDesc(224, N_puts, R_X86_64_64, Address.helper)>>,
     relplt |-> <<RelDesc(300, N_bar, R_X86_64_JUMP_SLOT, 0),
                  RelDesc(308, N_puts, R_X86_64_JUMP_SLOT, 0)>>,
     symtab |-> <<NullDesc, Func(N_helper, Address.helper, STB_LOCAL),
                  Func(N_init, Address.init, STB_LOCAL),
                  Func(N_bar, Address.bar, STB_GLOBAL),
                  Func(N_foo, Address.foo, STB_GLOBAL)>>,
     text   |-> [p_vaddr |-> TextBase, p_offset |-> 0],
     local_functions |-> {<<Address.helper, Size.func>>, <<Address.init, 0>>}]

\* a library without .symtab whose version requirement names a file that is
\* not among its DT_NEEDED entries
LibC ==
    [undef  |-> <<SymDesc(N_puts, 0, 0, STB_GLOBAL, STT_FUNC)>>,
     defd   |-> <<Func(N_foo, Address.foo, STB_GLOBAL), Func(N_bar, Address.bar, STB_GLOBAL)>>,
     gnu_nbuckets |-> 1, hash_nbuckets |-> 3,
     needed |-> <<N_libc>>, soname |-> N_libx, vn_file |-> N_libm,
     vna |-> <<N_V1>>, vda |-> <<N_V2>>,
     reldyn |-> <<RelDesc(200, N_bar, R_X86_64_GLOB_DAT, 0)>>,
     relplt |-> <<RelDesc(300, N_puts, R_X86_64_JUMP_SLOT, 0)>>,
     symtab |-> <<>>,
     text   |-> [p_vaddr |-> 0, p_offset |-> 0],
     local_functions |-> {}]

Libs == {LibA, LibB, LibC}

\* the names and addresses a caller passes to the collectors
Names == {N_puts, N_foo, N_bar, N_getline, N_line, N_tab, N_init, N_helper}

Addrs == {0, Address.init, Address.foo, Address.bar, Address.tab, Address.helper}

\* at most MaxPick names or addresses are passed to a collector, and at most
\* MaxBatches removals are run on a file
MaxPick == 2

MaxBatches == 2

Picks(U) == {P \in SUBSET U : Cardinality(P) <= MaxPick}

(***************************************************************************)
(* The tool as a state machine: an ELFRemove object on one file             *)
(***************************************************************************)

VARIABLES
    elf,                \* the file and the section handles of the object
    collection_dynsym,  \* self.collection_dynsym
    collection_symtab,  \* self.collection_symtab
    local_functions,    \* self.local_functions, filled in by the caller
    exc,                \* the exception that left the last call, "" if none
    batch,              \* the last removal call: its kind, the file before it,
                        \* the sorted list it worked on, its overwrite flag
                        \* and what it reported
    nbatches            \* the number of removal calls made

vars == <<elf, collection_dynsym, collection_symtab, local_functions, exc, batch, nbatches>>

NoBatch(e) ==
    [op |-> "none", pre |-> e, list |-> <<>>, overwrite |-> FALSE, removed |-> 0,
     table |-> <<>>]

\* ELFRemove.__init__ on a library that has a section header table
Init ==
    \E lib \in Libs, nc \in BOOLEAN :
        /\ elf = Link(lib, lib.hash_nbuckets, nc)
        /\ collection_dynsym = <<>>
        /\ collection_symtab = <<>>
        /\ local_functions = lib.local_functions
        /\ exc = ""
        /\ batch = NoBatch(Link(lib, lib.hash_nbuckets, nc))
        /\ nbatches = 0

\* a call is made while no exception has ended the run
Running == exc = "" /\ nbatches < MaxBatches

\* collect_symbols_in_section with names (by = "names") or addrs given
collect_symbols_in_section(e, secname, by, given, complement) ==
    IF by = "names" THEN collect_symbols_by_name(e, secname, given, complement)
    ELSE collect_symbols_by_address(e, secname, given, complement)

collect_symbols_in_dynsym ==
    /\ Running
    /\ \E by \in {"names", "addrs"}, complement \in BOOLEAN :
         \E given \in Picks(IF by = "names" THEN Names ELSE Addrs) :
            collection_dynsym' =
                collect_symbols_in_section(elf, "dynsym", by, given, complement)
    /\ UNCHANGED <<elf, collection_symtab, local_functions, exc, batch, nbatches>>

collect_symbols_in_symtab ==
    /\ Running
    /\ IF elf.symtab.present
       THEN /\ \E by \in {"names", "addrs"}, complement \in BOOLEAN :
                 \E given \in Picks(IF by = "names" THEN Names ELSE Addrs) :
                    collection_symtab' =
                        collect_symbols_in_section(elf, "symtab", by, given, complement)
            /\ exc' = exc
       ELSE /\ exc' = "AttributeError"
            /\ collection_symtab' = collection_symtab
    /\ UNCHANGED <<elf, collection_dynsym, local_functions, batch, nbatches>>

BatchRecord(op, pre, collection, overwrite, r) ==
    [op |-> op, pre |-> pre, list |-> SortedByIndexDesc(collection),
     overwrite |-> overwrite, removed |-> r.removed, table |-> r.table]

\* the call has returned or raised r = [elf, exc, removed, table]
Returned(op, collection, overwrite, r) ==
    /\ elf' = r.elf
    /\ exc' = r.exc
    /\ batch' = BatchRecord(op, elf, collection, overwrite, r)

remove_symbols_from_dynsym ==
    /\ Running
    /\ \E overwrite \in BOOLEAN :
         Returned("dynsym", collection_dynsym, overwrite,
                  remove_from_section(elf, "dynsym", collection_dynsym, overwrite))
    /\ nbatches' = nbatches + 1
    /\ UNCHANGED <<collection_dynsym, collection_symtab, local_functions>>

remove_symbols_from_symtab ==
    /\ Running
    /\ \E overwrite \in BOOLEAN :
         Returned("symtab", collection_symtab, overwrite,
                  remove_from_section(elf, "symtab", collection_symtab, overwrite))
    /\ nbatches' = nbatches + 1
    /\ UNCHANGED <<collection_dynsym, collection_symtab, local_functions>>

overwrite_local_functions ==
    /\ Running
    /\ IF elf.symtab.present
       THEN /\ collection_symtab' =
                   collect_symbols_by_address(
                       [elf EXCEPT !.cc = OverwriteLocal(@, local_functions)],
                       "symtab", {f[1] : f \in local_functions}, FALSE)
            /\ Returned("local", collection_symtab', FALSE,
                        remove_from_section(
                            [elf EXCEPT !.cc = OverwriteLocal(@, local_functions)],
                            "symtab", collection_symtab', FALSE))
       ELSE /\ elf' = [elf EXCEPT !.cc = OverwriteLocal(@, local_functions)]
            /\ exc' = exc
            /\ collection_symtab' = collection_symtab
            /\ batch' = NoBatch(elf)
    /\ nbatches' = nbatches + 1
    /\ UNCHANGED <<collection_dynsym, local_functions>>

Next ==
    \/ collect_symbols_in_dynsym
    \/ collect_symbols_in_symtab
    \/ remove_symbols_from_dynsym
    \/ remove_symbols_from_symtab
    \/ overwrite_local_functions

Spec == Init /\ [][Next]_vars

(***************************************************************************)
(* What a removal call did, read off the file before and after it          *)
(***************************************************************************)

\* the table the last removal call worked on
BatchSection == IF batch.op = "dynsym" THEN "dynsym" ELSE "symtab"

\* the last call was a removal from .dynsym / from .symtab that removed
\* something and returned
DynsymBatchDone == batch.op = "dynsym" /\ batch.removed > 0 /\ exc = ""

SymtabBatchDone == batch.op \in {"symtab", "local"} /\ batch.removed > 0 /\ exc = ""

\* the table indices (0-based) removed by the last call, the number of
\* entries before it and the indices that survived it, in ascending order
RemovedIdx == {batch.list[k].index : k \in 1..Len(batch.list)}

RemovedAddr == {batch.list[k].value : k \in 1..Len(batch.list)}

OldCount == batch.pre[BatchSection].sh_size \div SymEntSize

NewCount == elf[BatchSection].sh_size \div SymEntSize

Survivors == Ascending((0..(OldCount - 1)) \ RemovedIdx)

\* old index minus the number of removed symbols with a lower index
NewIndex(i) == i - Cardinality({r \in RemovedIdx : r < i})

\* the relocation entries of a table as the next reader sees them
RelEntries(e, secname) == SubSeq(e[secname].ents, 1, e[secname]._size \div RelaEntSize)

\* the entries of the table before the call that have the r_offset of x
OldOf(secname, x) ==
    {o \in {RelEntries(batch.pre, secname)[i] :
                i \in 1..Len(RelEntries(batch.pre, secname))} : o.r_offset = x.r_offset}

\* the r_offsets of the entries of a table
Offsets(e, secname) ==
    {RelEntries(e, secname)[i].r_offset : i \in 1..Len(RelEntries(e, secname))}

\* pyelftools' GNUHashTable.get_symbol without the bloom filter, which the
\* tool never writes: the .dynsym index found for name, -1 if none
GnuLookup(e, name) ==
    LET g == e.gnu_hash
        h == _gnuhash(name)
        n == e.dynsym.sh_size \div SymEntSize
        start == At(g.buckets, WordMod(h, g.nbuckets))
        RECURSIVE Walk(_)
        Walk(i) ==
            IF i >= n \/ i - g.symoffset >= Len(g.chains) THEN -1
            ELSE LET c == At(g.chains, i - g.symoffset)
                 IN  IF ClearBit0(c) = ClearBit0(h)
                        /\ SymbolName(e, "dynsym", e.dynsym.ents[i + 1]) = name
                     THEN i
                     ELSE IF Bit0(c) = 1 THEN -1 ELSE Walk(i + 1)
    IN  IF start < g.symoffset THEN -1 ELSE Walk(start)

\* the walk of test_hash_section: the .dynsym index at which name is found
\* from its bucket by following the chain until 0, -1 if it is not found
ElfLookup(e, name) ==
    LET w == e.elf_hash.words
        nb == w[1]
        nc == w[2]
        bucket(b) == w[2 + b + 1]
        chain(i)  == w[2 + nb + i + 1]
        RECURSIVE Walk(_, _)
        Walk(cur_ptr, fuel) ==
            IF cur_ptr = 0 \/ fuel = 0 \/ cur_ptr >= nc THEN -1
            ELSE IF SymbolName(e, "dynsym", e.dynsym.ents[cur_ptr + 1]) = name
            THEN cur_ptr
            ELSE Walk(chain(cur_ptr), fuel - 1)
    IN  Walk(bucket(_elfhash(name) % nb), nc)

(***************************************************************************)
(* Properties                                                              *)
(***************************************************************************)

\* a symbol table entry without its st_name
Body(ent) == [bind |-> ent.bind, type |-> ent.type, st_value |-> ent.st_value,
              st_size |-> ent.st_size]

\* C1: after a removal call that returned, on a table of the file, the table
\* written is the entries before the call without those at the removed
\* indices, in their order, followed by one all-zero entry per removed entry;
\* the call leaves these entries in place (for .dynsym with st_name moved to
\* the compacted .dynstr) and sh_size is smaller by removed x entsize.
C1_TableIsOriginalMinusRemoved ==
    (batch.op \in {"dynsym", "symtab", "local"} /\ batch.removed > 0 /\ exc = "") =>
        LET old == batch.pre[BatchSection].ents
            new == elf[BatchSection].ents
            n   == Len(Survivors)
        IN  /\ batch.removed = Cardinality(RemovedIdx)
            /\ n = OldCount - batch.removed
            /\ \A k \in 1..n : batch.table[k] = old[Survivors[k] + 1]
            /\ \A k \in (n + 1)..OldCount : batch.table[k] = ZeroSym /\ new[k] = ZeroSym
            /\ \A k \in 1..n :
                   /\ Body(new[k]) = Body(batch.table[k])
                   /\ BatchSection = "symtab" => new[k] = batch.table[k]
            /\ Len(new) = Len(old)
            /\ elf[BatchSection].sh_size
                   = batch.pre[BatchSection].sh_size - batch.removed * SymEntSize

C1_Witness ==
    /\ batch.op = "dynsym" /\ exc = "" /\ batch.removed = 2
    /\ \E i \in RemovedIdx : i + 1 \notin RemovedIdx /\ i + 1 < OldCount
    /\ \E i \in RemovedIdx : \E j \in 0..(OldCount - 1) : j \notin RemovedIdx /\ j < i

\* C2: after a .dynsym removal call that returned, the GNU hash lookup of the
\* name of every symbol at an index from symoffset on finds that index.
C2_GnuLookupFindsSurvivors ==
    DynsymBatchDone =>
        \A j \in elf.gnu_hash.symoffset..(NewCount - 1) :
            GnuLookup(elf, SymbolName(elf, "dynsym", elf.dynsym.ents[j + 1])) = j

C2_Witness ==
    /\ DynsymBatchDone
    /\ elf.gnu_hash.symoffset < batch.pre.gnu_hash.symoffset
    /\ \E i \in RemovedIdx : i >= batch.pre.gnu_hash.symoffset
    /\ NewCount - elf.gnu_hash.symoffset >= 2

\* C3: after a .dynsym removal call that returned, the SysV hash lookup of the
\* name of every symbol at an index from 1 on finds that index, and nchain is
\* the number of .dynsym entries.
C3_ElfLookupFindsSurvivors ==
    DynsymBatchDone =>
        /\ elf.elf_hash.words[2] = NewCount
        /\ \A j \in 1..(NewCount - 1) :
               ElfLookup(elf, SymbolName(elf, "dynsym", elf.dynsym.ents[j + 1])) = j

C3_Witness ==
    /\ DynsymBatchDone
    /\ NewCount >= 4
    /\ \E j \in 1..(NewCount - 1) : elf.elf_hash.words[2 + elf.elf_hash.words[1] + j + 1] # 0

\* C4: after a .dynsym removal call that returned, .gnu.version has one entry
\* per .dynsym symbol and the entry at the new index of each surviving symbol
\* is the one that symbol had before the call.
C4_VersionsFollowSymbols ==
    DynsymBatchDone =>
        /\ elf.gnu_version.sh_size = NewCount * VersionEntSize
        /\ \A k \in 1..Len(Survivors) :
               elf.gnu_version.vals[k] = batch.pre.gnu_version.vals[Survivors[k] + 1]

C4_Witness ==
    /\ DynsymBatchDone
    /\ \E k \in 1..Len(Survivors) : Survivors[k] + 1 # k

\* the string at offset new of the file is the string that was at offset old
\* before the call, and lies inside the new .dynstr
SameString(old, new) ==
    /\ new >= 0
    /\ new + CStrLen(elf.dynstr.bytes, new) < elf.dynstr.sh_size
    /\ CStr(elf.dynstr.bytes, new) = CStr(batch.pre.dynstr.bytes, old)

\* C5: after a .dynsym removal call that returned, the st_name of every
\* surviving symbol and the value of every DT_NEEDED, DT_SONAME, DT_RPATH and
\* DT_RUNPATH tag is an offset below the new size of .dynstr at which the
\* string starts that the same symbol or tag named before the call.
C5_NamesFollowCompaction ==
    DynsymBatchDone =>
        /\ \A k \in 1..Len(Survivors) :
               SameString(batch.pre.dynsym.ents[Survivors[k] + 1].st_name,
                          elf.dynsym.ents[k].st_name)
        /\ \A i \in 1..Len(elf.dynamic) :
               elf.dynamic[i].d_tag \in DynstrTags =>
                   SameString(batch.pre.dynamic[i].d_val, elf.dynamic[i].d_val)

C5_Witness ==
    /\ DynsymBatchDone
    /\ \E k \in 1..Len(Survivors) :
           elf.dynsym.ents[k].st_name # batch.pre.dynsym.ents[Survivors[k] + 1].st_name
    /\ \E i \in 1..Len(elf.dynamic) :
           elf.dynamic[i].d_tag \in DynstrTags /\ elf.dynamic[i].d_val # batch.pre.dynamic[i].d_val

\* the last call was a removal from .dynsym that got as far as compacting
\* .dynstr (line 1189 advances the version counter just before)
ReachedCompaction ==
    batch.op = "dynsym" /\ elf.dynsym.version = batch.pre.dynsym.version + 1

\* the old-to-new offset map of the last call lacks a name offset of the
\* version sections
VersionOffsetMissing ==
    LET b == _build_new_dynstr(batch.pre.ranges, batch.pre.dynstr.bytes, batch.list)
    IN  /\ b.exc = ""
        /\ ~(/\ AllMapped(VersionNames(batch.pre.verneed, TRUE), b.index_map)
             /\ AllMapped(VersionNames(batch.pre.verdef, FALSE), b.index_map))

\* C6: a .dynsym removal call never fails because a vn_file, vna_name or
\* vda_name is missing from the offset map, and after a call that returned
\* each of them is the offset in the new .dynstr of the string it named before.
C6_VersionNamesRewritten ==
    ReachedCompaction =>
        /\ ~(exc = "KeyError" /\ VersionOffsetMissing)
        /\ exc = "" =>
               LET old == VersionNames(batch.pre.verneed, TRUE)
                          \o VersionNames(batch.pre.verdef, FALSE)
                   new == VersionNames(elf.verneed, TRUE) \o VersionNames(elf.verdef, FALSE)
               IN  /\ Len(new) = Len(old)
                   /\ \A i \in 1..Len(old) : SameString(old[i], new[i])

\* C7: after a .dynsym removal call that returned, every entry of the dyn and
\* of the plt relocation table has r_info_sym 0 if it had 0 or referenced a
\* removed symbol before, and otherwise the old index minus the number of
\* removed symbols with a lower index.
C7_RelocSymbolsRenumbered ==
    DynsymBatchDone =>
        \A secname \in {"rel_dyn", "rel_plt"} :
            \A i \in 1..Len(RelEntries(elf, secname)) :
                LET x == RelEntries(elf, secname)[i]
                IN  /\ OldOf(secname, x) # {}
                    /\ \A o \in OldOf(secname, x) :
                           x.sym = IF o.sym \in RemovedIdx THEN 0 ELSE NewIndex(o.sym)

C7_Witness ==
    /\ DynsymBatchDone
    /\ \E secname \in {"rel_dyn", "rel_plt"} :
           \E i \in 1..Len(RelEntries(elf, secname)) :
               LET x == RelEntries(elf, secname)[i]
               IN  \E o \in OldOf(secname, x) : x.sym # 0 /\ x.sym < o.sym
    /\ \E i \in 1..Len(RelEntries(elf, "rel_plt")) :
           LET x == RelEntries(elf, "rel_plt")[i]
           IN  \E o \in OldOf("rel_plt", x) : x.sym = 0 /\ o.sym # 0

\* the entries of the dyn table before the call that the push pass is to
\* remove: those of a removed symbol and those without symbol whose addend is
\* the nonzero address of a removed symbol
ToPush ==
    {o \in {RelEntries(batch.pre, "rel_dyn")[i] :
                i \in 1..Len(RelEntries(batch.pre, "rel_dyn"))} :
        \/ o.sym \in RemovedIdx
        \/ o.sym = 0 /\ o.r_addend \in RemovedAddr \ {0}}

\* C8: after a .dynsym removal call that returned, the dyn relocation table
\* has lost exactly the entries of removed symbols and the entries without
\* symbol whose addend is the nonzero address of a removed symbol.
C8_PushRemovesExactlyMatching ==
    DynsymBatchDone =>
        Offsets(elf, "rel_dyn") =
            Offsets(batch.pre, "rel_dyn") \ {o.r_offset : o \in ToPush}

C10_SymtabPassRemovesOnlyRelative ==
    SymtabBatchDone =>
        /\ Offsets(elf, "rel_dyn") =
               {o.r_offset : o \in {p \in {RelEntries(batch.pre, "rel_dyn")[i] :
                                             i \in 1..Len(RelEntries(batch.pre, "rel_dyn"))} :
                                       ~(p.sym = 0 /\ p.r_addend \in RemovedAddr)}}
        /\ \A i \in 1..Len(RelEntries(elf, "rel_dyn")) :
               RelEntries(elf, "rel_dyn")[i] \in OldOf("rel_dyn", RelEntries(elf, "rel_dyn")[i])

\* a removal call removed something and returned
BatchDone == batch.op # "none" /\ batch.removed > 0 /\ exc = ""

\* the entries of a relocation table as stored in the file, up to the
\* sh_size of its section header
StoredRelocs(e, secname) ==
    SubSeq(e[secname].ents, 1, e[secname].sh_size \div RelaEntSize)

\* the number of R_X86_64_RELATIVE entries a table starts with
RelativeHead(ents) ==
    Cardinality({n \in 1..Len(ents) :
                    \A i \in 1..n : ents[i].type = R_X86_64_RELATIVE})

\* the value of the first dynamic tag named target
TagValue(e, target) == e.dynamic[FirstTag(e.dynamic, target)].d_val

\* C11: after a removal call that removed something and returned,
\* DT_RELACOUNT is the number of R_X86_64_RELATIVE entries the dyn relocation
\* table, as stored in the file, starts with.
C11_RelaCountIsRelativeHead ==
    BatchDone =>
        TagValue(elf, "DT_RELACOUNT") = RelativeHead(StoredRelocs(elf, "rel_dyn"))

\* the stored table secname is the table before the call without the entries
\* whose r_offset is in lost, each freed slot at its end holding a copy of the
\* last entry that is left
PaddedWithLast(secname, lost) ==
    LET old == StoredRelocs(batch.pre, secname)
        new == StoredRelocs(elf, secname)
        k   == Len(old) - Cardinality(lost)
    IN  /\ Len(new) = Len(old)
        /\ k >= 1
        /\ {new[i].r_offset : i \in 1..k} =
               {old[i].r_offset : i \in 1..Len(old)} \ lost
        /\ \A i \in (k + 1)..Len(new) : new[i] = new[k]

\* the r_offsets of the plt entries that referenced a symbol the last call
\* removed from .dynsym
PltOfRemoved ==
    IF batch.op # "dynsym" THEN {}
    ELSE {o.r_offset : o \in {p \in {batch.pre.rel_plt.ents[i] :
                                       i \in 1..Len(batch.pre.rel_plt.ents)} :
                                 p.sym \in RemovedIdx}}

\* the sizes of the relocation tables and DT_RELASZ are as before the call
RelocSizesKept ==
    /\ elf.rel_dyn.sh_size = batch.pre.rel_dyn.sh_size
    /\ elf.rel_plt.sh_size = batch.pre.rel_plt.sh_size
    /\ TagValue(elf, "DT_RELASZ") = TagValue(batch.pre, "DT_RELASZ")

FileOffset(e, a) == a - e.text.p_vaddr + e.text.p_offset

\* every byte of the function at address a of the given size is 0xCC
TrapBytes(a, size) == \A i \in 0..(size - 1) : FileOffset(elf, a) + i \in elf.cc

\* C13: after a removal call with overwrite that returned, and after
\* overwrite_local_functions, the bytes of every removed function with a
\* nonzero address and size, found at the file offset its address translates
\* to, are all 0xCC.
C13_RemovedCodeIsTrapBytes ==
    /\ (BatchDone /\ batch.overwrite) =>
           \A k \in 1..Len(batch.list) :
               (batch.list[k].value # 0 /\ batch.list[k].size # 0) =>
                   TrapBytes(batch.list[k].value, batch.list[k].size)
    /\ (batch.op = "local" /\ exc = "") =>
           \A f \in local_functions : f[2] # 0 => TrapBytes(f[1], f[2])

\* the table indices (0-based) of the entries of the table the last call
\* worked on whose binding is not local, after the call
NonLocalIdx ==
    {i \in 0..(NewCount - 1) : At(elf[BatchSection].ents, i).bind # STB_LOCAL}

remove_from_section_with_list ==
    /\ Running
    /\ \E overwrite \in BOOLEAN, given \in Picks(Names) :
         Returned("dynsym",
                  collection_dynsym \o collect_symbols_by_name(elf, "dynsym", given, FALSE),
                  overwrite,
                  remove_from_section(
                      elf, "dynsym",
                      collection_dynsym \o collect_symbols_by_name(elf, "dynsym", given, FALSE),
                      overwrite))
    /\ nbatches' = nbatches + 1
    /\ UNCHANGED <<collection_dynsym, collection_symtab, local_functions>>

NextWithList ==
    \/ collect_symbols_in_dynsym
    \/ remove_symbols_from_dynsym
    \/ remove_from_section_with_list

SpecWithList == Init /\ [][NextWithList]_vars

\* the list of the last removal call holds a ref whose sec_version is not
\* the version the section had when the call was made
StaleRefInBatch ==
    /\ batch.op # "none"
    /\ \E k \in 1..Len(batch.list) :
           batch.list[k].sec_version # batch.pre[BatchSection].version

\* C15: a removal call whose list holds a ref of another version than the
\* section's fails with StaleCollection and leaves the file as it was before
\* the call, wherever the ref stands in the list.
C15_StaleRefLeavesFileUntouched ==
    StaleRefInBatch => (exc = "StaleCollection" /\ elf = batch.pre)


\* C16: after a removal from .dynsym or from .symtab that removed something,
\* the version of that section has advanced, and a further remove_from_section
\* with the refs just used fails with StaleCollection.
C16_RemovalAdvancesVersion ==
    BatchDone =>
        /\ elf[BatchSection].version > batch.pre[BatchSection].version
        /\ remove_from_section(elf, BatchSection, batch.list, FALSE).exc = "StaleCollection"


\* the entry at table position i of the section as stored, and its name
StoredEntry(e, secname, i) == e[secname].ents[i + 1]

StoredName(e, secname, i) ==
    CStr(IF secname = "dynsym" THEN e.dynstr.bytes ELSE e.strtab,
         StoredEntry(e, secname, i).st_name)

\* the table positions a collector has to report for the given input
Wanted(e, secname, by, given, complement) ==
    {i \in 0..((e[secname].sh_size \div SymEntSize) - 1) :
        /\ StoredEntry(e, secname, i).type = STT_FUNC
        /\ StoredName(e, secname, i) \notin {N_init, N_fini}
        /\ (IF by = "names" THEN StoredName(e, secname, i) \in given
            ELSE StoredEntry(e, secname, i).st_value \in given) # complement}

\* refs is what the contract of the collectors asks for
RefsAsWanted(e, secname, refs, wanted) ==
    /\ {refs[k].index : k \in 1..Len(refs)} = wanted
    /\ \A j, k \in 1..Len(refs) : j < k => refs[j].index < refs[k].index
    /\ \A k \in 1..Len(refs) :
          /\ refs[k].sec_version = e[secname].version
          /\ refs[k].name = StoredName(e, secname, refs[k].index)
          /\ refs[k].value = StoredEntry(e, secname, refs[k].index).st_value
          /\ refs[k].size = StoredEntry(e, secname, refs[k].index).st_size

CollectorsAsWanted(e, secname) ==
    \A by \in {"names", "addrs"}, complement \in BOOLEAN :
        \A given \in Picks(IF by = "names" THEN Names ELSE Addrs) :
            RefsAsWanted(e, secname,
                         collect_symbols_in_section(e, secname, by, given, complement),
                         Wanted(e, secname, by, given, complement))

\* C17: on every table the tool gets to, for every input set and complement
\* flag, a collector returns one ref for exactly the STT_FUNC entries that are
\* not named _init or _fini and match the input (do not match it, with
\* complement), in ascending table index, each with the entry's table position
\* and the section's current version; and a step that only collects leaves the
\* file as it is.
C17_CollectorContract ==
    /\ [](CollectorsAsWanted(elf, "dynsym")
          /\ (elf.symtab.present => CollectorsAsWanted(elf, "symtab")))
    /\ [][nbatches' = nbatches => elf' = elf]_vars

\* a collection was made on a table that a removal has changed, and it leaves
\* out _init although _init is a function of the table
C17_Witness ==
    /\ BatchDone /\ batch.op = "dynsym"
    /\ Len(collection_dynsym) >= 2
    /\ collection_dynsym = collect_symbols_by_name(elf, "dynsym", {N_tab}, TRUE)
    /\ \E i \in 1..Len(iter_symbols(elf.dynsym)) :
           /\ SymbolName(elf, "dynsym", elf.dynsym.ents[i]) = N_init
           /\ elf.dynsym.ents[i].type = STT_FUNC


\* the tool run on the dynamic symbols and the local functions only: the
\* collectors are checked on the tables of these runs
NextDynamic ==
    \/ collect_symbols_in_dynsym
    \/ remove_symbols_from_dynsym
    \/ overwrite_local_functions

SpecDynamic == Init /\ [][NextDynamic]_vars


\* the last call was a removal from .dynsym or .symtab with an empty collection
EmptyBatch == batch.op \in {"dynsym", "symtab"} /\ batch.list = <<>>

\* C18: a removal call with an empty collection changes no byte of the file
\* and does not advance the version of the section; so a removal followed by
\* an empty removal leaves the file the first one produced.
C18_EmptyRemovalIsNoOp ==
    EmptyBatch =>
        /\ elf = batch.pre
        /\ batch.removed = 0

\* an empty removal from .dynsym was run after a removal that had changed .dynsym
C18_Witness ==
    /\ EmptyBatch /\ batch.op = "dynsym" /\ exc = ""
    /\ nbatches = 2
    /\ elf.dynsym.version = 1


\* the file offsets of the code of the functions the last call was given:
\* [value, value + size) of each ref, and of each local function when the call
\* was overwrite_local_functions, taken through the segment's address map
RemovedCode ==
    UNION {ByteRange(FileOffset(batch.pre, batch.list[k].value), batch.list[k].size) :
              k \in 1..Len(batch.list)}
    \cup (IF batch.op = "local"
          THEN UNION {ByteRange(FileOffset(batch.pre, f[1]), f[2]) : f \in local_functions}
          ELSE {})

\* the tags of the dynamic section, without their values
TagNames(e) == [i \in 1..Len(e.dynamic) |-> e.dynamic[i].d_tag]

\* C19: a removal call changes nothing outside the symbol tables, .dynstr,
\* the hash tables, the version tables' name fields, the relocation tables,
\* the values of the dynamic tags and the code of the removed functions: the
\* program header, .strtab and the kinds of the dynamic entries are as before,
\* and every code byte that was overwritten lies in the code of a removed
\* function.
C19_OnlyListedBytesChange ==
    batch.op # "none" =>
        /\ elf.text = batch.pre.text
        /\ elf.strtab = batch.pre.strtab
        /\ TagNames(elf) = TagNames(batch.pre)
        /\ (elf.cc \ batch.pre.cc) \subseteq RemovedCode


(***************************************************************************)
(* A library without section header table                                  *)
(***************************************************************************)

\* lines 239-294: no section is found by name, so .dynsym, the hash tables,
\* .gnu.version and the relocation tables are built from the dynamic segment
\* with index -1; self._dynstr, self._dynamic and self.symtab stay None
Stripped(e) ==
    [e EXCEPT !.shdrs = FALSE, !.dynsym.index = -1, !.symtab.present = FALSE]

\* ELFRemove.__init__ on a library whose section header table was stripped
InitStripped ==
    \E lib \in Libs, nc \in BOOLEAN :
        /\ elf = Stripped(Link(lib, lib.hash_nbuckets, nc))
        /\ collection_dynsym = <<>>
        /\ collection_symtab = <<>>
        /\ local_functions = lib.local_functions
        /\ exc = ""
        /\ batch = NoBatch(Stripped(Link(lib, lib.hash_nbuckets, nc)))
        /\ nbatches = 0

SpecStripped == InitStripped /\ [][NextDynamic]_vars

\* the last call was a removal from .dynsym with refs of the section's version
FreshDynsymBatch ==
    /\ batch.op = "dynsym" /\ batch.list # <<>>
    /\ \A k \in 1..Len(batch.list) :
           batch.list[k].sec_version = batch.pre.dynsym.version

\* the relocation entry references no symbol or a function or object that
\* has the name the entry's symbol had before the call
SameTarget(secname, x) ==
    \A o \in OldOf(secname, x) :
        x.sym # 0 =>
            SymbolName(elf, "dynsym", elf.dynsym.ents[x.sym + 1])
                = SymbolName(batch.pre, "dynsym", batch.pre.dynsym.ents[o.sym + 1])

\* C20: in a file without section header table, a removal from .dynsym
\* returns normally, the removed symbols are no longer in the stored .dynsym,
\* the two hash lookups find every stored symbol at its index, and every
\* relocation entry references the symbol it referenced before or none.
C20_StrippedRemovalKeepsInvariants ==
    (FreshDynsymBatch /\ ~elf.shdrs) =>
        /\ exc = ""
        /\ \A k \in 1..Len(batch.list) :
               \A j \in 1..Len(iter_symbols(elf.dynsym)) :
                   SymbolName(elf, "dynsym", elf.dynsym.ents[j]) # batch.list[k].name
        /\ \A j \in elf.gnu_hash.symoffset..(Len(iter_symbols(elf.dynsym)) - 1) :
               GnuLookup(elf, SymbolName(elf, "dynsym", elf.dynsym.ents[j + 1])) = j
        /\ \A j \in 1..(Len(iter_symbols(elf.dynsym)) - 1) :
               ElfLookup(elf, SymbolName(elf, "dynsym", elf.dynsym.ents[j + 1])) = j
        /\ \A secname \in {"rel_dyn", "rel_plt"} :
               \A i \in 1..Len(RelEntries(elf, secname)) :
                   SameTarget(secname, RelEntries(elf, secname)[i])


\* the string table _build_new_dynstr made in the last call: .dynstr and the
\* range map are touched by nothing else, so they were as before the call
NewBytes == _build_new_dynstr(batch.pre.ranges, batch.pre.dynstr.bytes, batch.list).out_bytes

\* C21: after a .dynsym removal call that returned, the sh_size of .dynstr
\* and DT_STRSZ both are the length of the string table that was written,
\* the table is what .dynstr starts with, and its length is not greater than
\* the sh_size before the call.
C21_StrszIsWrittenLength ==
    DynsymBatchDone =>
        /\ elf.dynstr.sh_size = Len(NewBytes)
        /\ TagValue(elf, "DT_STRSZ") = Len(NewBytes)
        /\ SubSeq(elf.dynstr.bytes, 1, Len(NewBytes)) = NewBytes
        /\ Len(NewBytes) <= batch.pre.dynstr.sh_size

\* the string table became shorter in the call
C21_Witness ==
    /\ DynsymBatchDone
    /\ elf.dynstr.sh_size < batch.pre.dynstr.sh_size
    /\ elf.dynstr.sh_size > 1


(***************************************************************************)
(* Opening a file: the detection of the loaders that need continuous       *)
(* relocation tables                                                       *)
(***************************************************************************)

DF_BIND_NOW == 8

DF_1_NOW == 1

\* 'ld-linux-'
N_ld_linux == <<108, 100, 45, 108, 105, 110, 117, 120, 45>>

\* 'ld-linux-x86-64.so.2', 'libx.so' and 'old-ld-linux-x86.so'
Basenames ==
    {N_ld_linux \o <<120, 56, 54, 45, 54, 52, 46, 115, 111, 46, 50>>,
     N_libx,
     <<111, 108, 100, 45>> \o N_ld_linux \o <<120, 56, 54, 46, 115, 111>>}

\* what __init__ looks at: whether a section named .dynamic is found (it is
\* not when the section headers are stripped), the d_val of the DT_FLAGS and
\* DT_FLAGS_1 tags if there are any, whether there is a DT_BIND_NOW tag,
\* whether LD_BUGGY is in the environment, the notes of .note.ABI-tag as
\* <<abi_os, major, minor, tiny>>, and the basename of the file
Files ==
    [dynamic_section : BOOLEAN,
     flags    : {<<>>, <<0>>, <<DF_BIND_NOW>>, <<DF_BIND_NOW + 2>>},
     flags_1  : {<<>>, <<DF_1_NOW>>},
     bind_now : BOOLEAN,
     LD_BUGGY : BOOLEAN,
     notes    : {<<>>, <<<<"ELF_NOTE_OS_LINUX", 2, 6, 32>>>>,
                 <<<<"ELF_NOTE_OS_LINUX", 3, 2, 0>>>>,
                 <<<<"ELF_NOTE_OS_GNU", 2, 6, 32>>>>},
     basename : Basenames]

\* d_val & bit for a bit that is a power of two
HasBit(d_val, bit) == (d_val \div bit) % 2 = 1

\* sub in s for two strings
Contains(s, sub) ==
    \E i \in 1..(Len(s) - Len(sub) + 1) : SubSeq(s, i, i + Len(sub) - 1) = sub

\* lines 134-163
need_continuous_relocations(f) ==
    \/ /\ f.dynamic_section
       /\ \/ Len(f.flags) > 0 /\ HasBit(f.flags[1], DF_BIND_NOW)
          \/ Len(f.flags_1) > 0 /\ HasBit(f.flags_1[1], DF_1_NOW)
          \/ f.bind_now
       /\ \/ f.LD_BUGGY
          \/ \E i \in 1..Len(f.notes) :
                 f.notes[i] = <<"ELF_NOTE_OS_LINUX", 2, 6, 32>>
    \/ Contains(f.basename, N_ld_linux)

\* the object made for the file f: the handles of LibC's tables with the
\* flag __init__ computed
Opened(f) ==
    [opened |-> TRUE, file |-> f,
     need_continuous |-> need_continuous_relocations(f),
     shdrs |-> f.dynamic_section]

\* a file f for which no ELFRemove object has been made yet
InitFile ==
    \E f \in Files :
        /\ elf = [opened |-> FALSE, file |-> f]
        /\ collection_dynsym = <<>>
        /\ collection_symtab = <<>>
        /\ local_functions = {}
        /\ exc = ""
        /\ batch = NoBatch([opened |-> FALSE, file |-> f])
        /\ nbatches = 0

\* ELFRemove.__init__
ELFRemove_init ==
    /\ ~elf.opened
    /\ elf' = Opened(elf.file)
    /\ UNCHANGED <<collection_dynsym, collection_symtab, local_functions, exc, batch,
                   nbatches>>

SpecOpen == InitFile /\ [][ELFRemove_init]_vars

\* the dynamic tags of the file ask for eager binding
EagerBinding(f) ==
    \/ \E i \in 1..Len(f.flags) : HasBit(f.flags[i], DF_BIND_NOW)
    \/ \E i \in 1..Len(f.flags_1) : HasBit(f.flags_1[i], DF_1_NOW)
    \/ f.bind_now

\* the string s starts with the string p
BeginsWith(s, p) == Len(s) >= Len(p) /\ SubSeq(s, 1, Len(p)) = p

\* C22: need_continuous_relocations is set exactly when the dynamic tags ask
\* for eager binding and LD_BUGGY is set or there is a Linux ABI note of
\* version 2.6.32, or when the basename of the file begins with 'ld-linux-'.
C22_QuirkDetection ==
    elf.opened =>
        (elf.need_continuous
            <=> \/ /\ EagerBinding(elf.file)
                   /\ \/ elf.file.LD_BUGGY
                      \/ \E i \in 1..Len(elf.file.notes) :
                             elf.file.notes[i] = <<"ELF_NOTE_OS_LINUX", 2, 6, 32>>
                \/ BeginsWith(elf.file.basename, N_ld_linux))


\* the removed symbols the GNU hash step takes for undefined ones (value 0,
\* size 0, index below symoffset), and the others
UndefRemoved == SelectSyms(batch.list, batch.pre.gnu_hash.symoffset, TRUE)

DefinedRemoved == SelectSyms(batch.list, batch.pre.gnu_hash.symoffset, FALSE)

\* .gnu.hash as the step leaves it when only the hashed symbols of the list
\* are removed from the table of before the call
HashedOnly ==
    _batch_remove_gnu_hashtable([elf |-> batch.pre, exc |-> ""], DefinedRemoved,
                                OldCount).elf.gnu_hash

\* C23: after a .dynsym removal call that returned and removed k undefined
\* symbols, symoffset is k lower than before, every bucket word is 0 if it is
\* 0 after the removal of the hashed symbols alone and k lower than that
\* otherwise, and the chain array and the section size are those the removal
\* of the hashed symbols alone gives.
C23_UndefinedShiftBuckets ==
    DynsymBatchDone =>
        /\ elf.gnu_hash.symoffset = batch.pre.gnu_hash.symoffset - Len(UndefRemoved)
        /\ \A b \in 1..elf.gnu_hash.nbuckets :
               elf.gnu_hash.buckets[b] =
                   IF HashedOnly.buckets[b] = 0 THEN 0
                   ELSE HashedOnly.buckets[b] - Len(UndefRemoved)
        /\ elf.gnu_hash.chains = HashedOnly.chains
        /\ elf.gnu_hash.sh_size = HashedOnly.sh_size
        /\ elf.gnu_hash.sh_size =
               batch.pre.gnu_hash.sh_size - Len(DefinedRemoved) * HashWordSize

\* an undefined and a hashed symbol were removed in one call and a bucket is
\* still in use
C23_Witness ==
    /\ DynsymBatchDone
    /\ Len(UndefRemoved) = 1 /\ Len(DefinedRemoved) = 1
    /\ \E b \in 1..elf.gnu_hash.nbuckets :
           elf.gnu_hash.buckets[b] # 0 /\ elf.gnu_hash.buckets[b] # batch.pre.gnu_hash.buckets[b]


\* the buckets (0-based) of the hashed symbols the last call removed
RemovedBuckets == GnuBuckets(GnuHashes(DefinedRemoved), batch.pre.gnu_hash.nbuckets)

\* the number of removed hashed symbols whose bucket is at or after bucket j,
\* and the number of those whose bucket is before bucket j
RemovedAtOrAfter(j) ==
    Cardinality({s \in 1..Len(RemovedBuckets) : RemovedBuckets[s] >= j})

RemovedBefore(j) ==
    Cardinality({s \in 1..Len(RemovedBuckets) : RemovedBuckets[s] < j})

\* the bucket words after the chain edits of the last call (lines 841-844)
BucketsAfterEdits ==
    EditGnuLoop(ReadGnuHash(batch.pre.gnu_hash, OldCount - batch.pre.gnu_hash.symoffset),
                DefinedRemoved, GnuHashes(DefinedRemoved), 1).buckets

\* the bucket words after the fix-up of lines 851-861
BucketsFixed ==
    FixBuckets(BucketsAfterEdits, RemovedBuckets, batch.pre.gnu_hash.nbuckets - 1,
               0, Len(DefinedRemoved))

\* the buckets in use before and after the last call
BucketsKept ==
    {j \in 0..(batch.pre.gnu_hash.nbuckets - 1) :
        At(batch.pre.gnu_hash.buckets, j) # 0 /\ At(elf.gnu_hash.buckets, j) # 0}

\* C24 as stated: after a .dynsym removal call that returned, the start of
\* every bucket still in use is lower than before by the number of removed
\* hashed symbols whose bucket index is greater than or equal to its own (and
\* by the number of removed undefined symbols, C23).
C24_SubtractsLaterBuckets ==
    DynsymBatchDone =>
        \A j \in BucketsKept :
            At(batch.pre.gnu_hash.buckets, j) - At(elf.gnu_hash.buckets, j) =
                RemovedAtOrAfter(j) + Len(UndefRemoved)

\* C24 amended: the fix-up lowers every bucket start left by the chain edits
\* by the number of removed hashed symbols whose bucket index is strictly less
\* than its own, never below 0; the stored words are those after the clearing
\* of the trailing buckets and the shift for undefined symbols, so the start
\* of every bucket still in use is lower than before by that number plus the
\* number of removed undefined symbols.
C24_SubtractsEarlierBuckets ==
    DynsymBatchDone =>
        /\ \A j \in 0..(batch.pre.gnu_hash.nbuckets - 1) :
               At(BucketsFixed, j) = Max2(0, At(BucketsAfterEdits, j) - RemovedBefore(j))
        /\ elf.gnu_hash.buckets =
               ShiftBuckets(ClearTrailing(BucketsFixed, batch.pre.gnu_hash.nbuckets - 1,
                                          OldCount - Len(DefinedRemoved)),
                            Len(UndefRemoved))
        /\ \A j \in BucketsKept :
               At(batch.pre.gnu_hash.buckets, j) - At(elf.gnu_hash.buckets, j) =
                   RemovedBefore(j) + Len(UndefRemoved)

\* a bucket still in use lies after the bucket of a removed hashed symbol and
\* another at or before one
C24_Witness ==
    /\ DynsymBatchDone
    /\ \E j \in BucketsKept : RemovedBefore(j) > 0
    /\ \E j \in BucketsKept : RemovedAtOrAfter(j) > 0


\* the reference counts _parse_dynstr would find in the file as it is now
CurrentRanges ==
    _parse_dynstr(elf.dynamic,
                  SubSeq(elf.dynsym.ents, 1, elf.dynsym.sh_size \div SymEntSize),
                  elf.verdef, elf.verneed, elf.dynstr.bytes)

\* C25: after every .dynsym removal call that returned, the range map of the
\* instance is the reference count, over the symbol names, the dynamic string
\* tags and the version aux names of the file as it is now, of each (start,
\* end) range of the current .dynstr, and no count in it is zero or negative.
C25_RangeMapFollowsLayout ==
    DynsymBatchDone =>
        /\ elf.ranges = CurrentRanges
        /\ \A k \in DOMAIN elf.ranges : elf.ranges[k] > 0


(***************************************************************************)
(* _build_new_dynstr on its own: a string table whose strings have         *)
(* consumers at their start and inside them, and a list of removed names.  *)
(***************************************************************************)

\* \0getline\0foo\0table\0
TailBytes == <<0>> \o N_getline \o <<0>> \o N_foo \o <<0>> \o N_tab \o <<0>>

\* where names start in TailBytes (getline, line, ne, foo, oo, table, le) and
\* the most consumers one of them has
TailStarts == {1, 4, 6, 9, 10, 13, 16}

MaxRefs(s) == IF s \in {1, 4, 6} THEN 2 ELSE 1

\* the most names one call removes
MaxRemovedNames == 2

\* the range map _parse_dynstr makes of the reference counts cnt
RangeMapOf(cnt) ==
    LET used == {s \in TailStarts : cnt[s] > 0}
    IN  [k \in {<<0, 0>>} \cup {_get_string_range(TailBytes, s) : s \in used} |->
            IF k = <<0, 0>> THEN 1 ELSE cnt[k[1]]]

\* an object whose range map was made from TailBytes, and the symbols about
\* to be removed, each one a consumer of its name
InitDynstr ==
    \E cnt \in [TailStarts -> 0..2] :
        \E gone \in SUBSET {s \in TailStarts : cnt[s] > 0} :
            /\ \A s \in TailStarts : cnt[s] <= MaxRefs(s)
            /\ Cardinality(gone) <= MaxRemovedNames
            /\ elf = [built |-> FALSE, bytes |-> TailBytes, ranges |-> RangeMapOf(cnt),
                      removed |-> [i \in 1..Cardinality(gone) |->
                                      [name_offset |-> Ascending(gone)[i]]]]
            /\ collection_dynsym = <<>>
            /\ collection_symtab = <<>>
            /\ local_functions = {}
            /\ exc = ""
            /\ batch = NoBatch(<<>>)
            /\ nbatches = 0

\* the call of _build_new_dynstr in _compact_dynstr
build_new_dynstr ==
    /\ ~elf.built
    /\ elf' = [built |-> TRUE, bytes |-> elf.bytes, ranges |-> elf.ranges,
               removed |-> elf.removed,
               new |-> _build_new_dynstr(elf.ranges, elf.bytes, elf.removed)]
    /\ UNCHANGED <<collection_dynsym, collection_symtab, local_functions, exc, batch,
                   nbatches>>

SpecDynstr == InitDynstr /\ [][build_new_dynstr]_vars

\* the surviving ranges in ascending order, and whether the k-th of them
\* starts inside the one before it
Surviving == SortedPairs(DOMAIN elf.new.ranges)

IsTail(k) == k > 1 /\ Surviving[k][1] < Surviving[k - 1][2]

RECURSIVE OwnBytes(_)
OwnBytes(k) ==
    IF k > Len(Surviving) THEN 0
    ELSE (IF IsTail(k) THEN 0 ELSE Surviving[k][2] - Surviving[k][1] + 1) + OwnBytes(k + 1)

\* C26: in the table _build_new_dynstr returns, a surviving range that starts
\* inside the surviving range before it (in ascending order) is mapped to the
\* same distance behind that range's new start and adds no bytes: the table
\* is the leading NUL and one copy, with its NUL, of every other surviving
\* range; and every surviving range, one whose containing string was removed
\* included, is mapped to an offset of the new table that holds its string.
C26_SharedTailsStoredOnce ==
    elf.built =>
        /\ elf.new.exc = ""
        /\ \A k \in 2..Len(Surviving) :
               IsTail(k) =>
                   elf.new.index_map[Surviving[k][1]] =
                       elf.new.index_map[Surviving[k - 1][1]]
                           + (Surviving[k][1] - Surviving[k - 1][1])
        /\ Len(elf.new.out_bytes) = OwnBytes(2) + 1
        /\ \A k \in 1..Len(Surviving) :
               /\ Surviving[k][1] \in DOMAIN elf.new.index_map
               /\ CStr(elf.new.out_bytes, elf.new.index_map[Surviving[k][1]])
                      = CStr(elf.bytes, Surviving[k][1])

\* getline, line and ne survive as a chain of tails, and foo was removed
\* while oo survives
C26_Witness ==
    /\ elf.built
    /\ {<<1, 8>>, <<4, 8>>, <<6, 8>>, <<10, 12>>} \subseteq DOMAIN elf.new.ranges
    /\ <<9, 12>> \in DOMAIN elf.ranges
    /\ <<9, 12>> \notin DOMAIN elf.new.ranges


\* a library as LibC in which two relocation entries of .rela.dyn apply to
\* one location
LibD ==
    [LibC EXCEPT !.vn_file = N_libc,
                 !.reldyn = <<RelDesc(200, N_foo, R_X86_64_64, 0),
                              RelDesc(200, N_bar, R_X86_64_64, 0),
                              RelDesc(208, N_puts, R_X86_64_GLOB_DAT, 0)>>]

\* ELFRemove.__init__ on LibD
InitSameOffset ==
    \E nc \in BOOLEAN :
        /\ elf = Link(LibD, LibD.hash_nbuckets, nc)
        /\ collection_dynsym = <<>>
        /\ collection_symtab = <<>>
        /\ local_functions = LibD.local_functions
        /\ exc = ""
        /\ batch = NoBatch(Link(LibD, LibD.hash_nbuckets, nc))
        /\ nbatches = 0

SpecSameOffset == InitSameOffset /\ [][NextDynamic]_vars

\* what identifies a relocation entry apart from its symbol index, which a
\* removal renumbers
RelocKey(r) == <<r.r_offset, r.type, r.r_addend>>

RelocKeysOf(ents) == [i \in 1..Len(ents) |-> RelocKey(ents[i])]

\* a is b with some elements left out
RECURSIVE IsSubsequence(_, _)
IsSubsequence(a, b) ==
    IF a = <<>> THEN TRUE
    ELSE IF b = <<>> THEN FALSE
    ELSE IF Head(a) = Head(b) THEN IsSubsequence(Tail(a), Tail(b))
    ELSE IsSubsequence(a, Tail(b))

\* C27: after a .dynsym removal call that returned, .rela.dyn occupies as
\* many entry slots as before (entries written plus fill slots is the
\* original count), and, where the section shrinks, the entries it holds are
\* entries of the original table, each used once, in their original order.
C27_SurvivorsOnceInOrder ==
    (DynsymBatchDone /\ batch.pre.rel_dyn.present) =>
        /\ Len(elf.rel_dyn.ents) = Len(batch.pre.rel_dyn.ents)
        /\ ~elf.need_continuous =>
               IsSubsequence(RelocKeysOf(StoredRelocs(elf, "rel_dyn")),
                             RelocKeysOf(StoredRelocs(batch.pre, "rel_dyn")))


\* C28: a removal call on a .dynsym built from the dynamic segment (index -1)
\* leaves the entries stored at the table's offset, its sh_size and its
\* sh_info as they were before the call, whether the call returns or not.
C28_SyntheticTableUntouched ==
    (FreshDynsymBatch /\ batch.pre.dynsym.index = -1) =>
        /\ elf.dynsym.ents = batch.pre.dynsym.ents
        /\ elf.dynsym.sh_size = batch.pre.dynsym.sh_size
        /\ elf.dynsym.sh_info = batch.pre.dynsym.sh_info
        /\ batch.table = batch.pre.dynsym.ents

\* such a call went as far as the relocation pass, which wrote .rela.dyn
C28_Witness ==
    /\ FreshDynsymBatch /\ batch.pre.dynsym.index = -1
    /\ elf.rel_dyn.ents # batch.pre.rel_dyn.ents


\* the bucket counts the linker may have given .hash: the one the schedule
\* of _calc_nbuckets gives for the table, and a smaller one
HashBucketChoices == {1, 3}

\* a library as LibC whose version requirement names a needed file
LibE == [LibC EXCEPT !.vn_file = N_libc]

\* ELFRemove.__init__ on LibE linked with either bucket count
InitAnyBuckets ==
    \E hash_nb \in HashBucketChoices, nc \in BOOLEAN :
        /\ elf = Link(LibE, hash_nb, nc)
        /\ collection_dynsym = <<>>
        /\ collection_symtab = <<>>
        /\ local_functions = LibE.local_functions
        /\ exc = ""
        /\ batch = NoBatch(Link(LibE, hash_nb, nc))
        /\ nbatches = 0

SpecAnyBuckets == InitAnyBuckets /\ [][NextDynamic]_vars

\* C29: a removal call on .dynsym writes no word behind the .hash section
\* as it was before the call; a table it rebuilt, (2 + nbuckets + nchain)
\* words, fits the old sh_size, which is what the size update needs in order
\* not to fail; and when the call returned, sh_size is that of the table.
C29_HashRebuildStaysInside ==
    FreshDynsymBatch =>
        /\ Len(elf.elf_hash.words) = Len(batch.pre.elf_hash.words)
        /\ elf.elf_hash.words # batch.pre.elf_hash.words =>
               (2 + elf.elf_hash.words[1] + elf.elf_hash.words[2]) * HashWordSize
                   <= batch.pre.elf_hash.sh_size
        /\ exc = "" =>
               elf.elf_hash.sh_size =
                   (2 + elf.elf_hash.words[1] + elf.elf_hash.words[2]) * HashWordSize


(***************************************************************************)
(* The keep list: get_function_addresses, fixup_function_ranges and        *)
(* get_keep_list on a collection of exported functions and the local       *)
(* functions the caller has set.                                           *)
(***************************************************************************)

\* get_function_addresses: address -> size over the collected exported
\* symbols that are not undefined, a local function replacing an exported
\* one at its address
get_function_addresses(collection, locals) ==
    LET exported == {i \in 1..Len(collection) :
                        ~(collection[i].value = 0 /\ collection[i].size = 0)}
        last(a)  == CHOOSE i \in exported :
                        /\ collection[i].value = a
                        /\ \A j \in exported : collection[j].value = a => j <= i
        laddrs   == {f[1] : f \in locals}
    IN  [a \in {collection[i].value : i \in exported} \cup laddrs |->
            IF a \in laddrs THEN (CHOOSE f \in locals : f[1] = a)[2]
            ELSE collection[last(a)].size]

\* the loop of get_keep_list over the addresses in ascending order; ranges is
\* the list of lists built so far, the last one still open
RECURSIVE KeepLoop(_, _, _, _)
KeepLoop(ranges, addrs, keys, k) ==
    IF k > Len(keys) THEN ranges
    ELSE LET end == keys[k]
             next_start == keys[k] + addrs[keys[k]]
         IN  IF next_start = end THEN KeepLoop(ranges, addrs, keys, k + 1)
             ELSE KeepLoop([ranges EXCEPT ![Len(ranges)] = Append(@, end)]
                               \o << <<next_start>> >>,
                           addrs, keys, k + 1)

\* get_keep_list
get_keep_list(collection, locals, total_size) ==
    LET addrs  == get_function_addresses(collection, locals)
        ranges == KeepLoop(<< <<0>> >>, addrs, Ascending(DOMAIN addrs), 1)
    IN  [ranges EXCEPT ![Len(ranges)] = Append(@, total_size)]

\* fixup_function_ranges: a collected symbol whose address is in ranges gets
\* the size given there
FixupRanges(collection, ranges) ==
    [i \in 1..Len(collection) |->
        IF collection[i].value \in DOMAIN ranges
        THEN [collection[i] EXCEPT !.size = ranges[collection[i].value]]
        ELSE collection[i]]

\* the exported symbols a collection is made of (an undefined one, functions
\* that lie apart, side by side and inside one another), the local functions
\* of the caller, the sizes an external tool reports, and the file sizes
KeepSymbols ==
    {[value |-> 0, size |-> 0], [value |-> 16, size |-> 4],
     [value |-> 16, size |-> 8], [value |-> 20, size |-> 4]}

KeepLocals == {<<20, 8>>, <<28, 4>>}

KeepFixups == {(16 :> 4), (16 :> 8 @@ 20 :> 4)}

KeepSizes == {32, 40}

KeepCollections ==
    {<<>>} \cup {<<s>> : s \in KeepSymbols}
           \cup {p \in {<<s, t>> : s \in KeepSymbols, t \in KeepSymbols} : p[1] # p[2]}

\* an object with a collection, before get_keep_list is called
InitKeep ==
    \E c \in KeepCollections, l \in SUBSET KeepLocals :
        /\ elf = [called |-> FALSE]
        /\ collection_dynsym = c
        /\ collection_symtab = <<>>
        /\ local_functions = l
        /\ exc = ""
        /\ batch = NoBatch(<<>>)
        /\ nbatches = 0

fixup_function_ranges ==
    /\ ~elf.called
    /\ \E ranges \in KeepFixups :
           collection_dynsym' = FixupRanges(collection_dynsym, ranges)
    /\ UNCHANGED <<elf, collection_symtab, local_functions, exc, batch, nbatches>>

call_get_keep_list ==
    /\ ~elf.called
    /\ \E total_size \in KeepSizes :
           elf' = [called |-> TRUE, total_size |-> total_size,
                   keep |-> get_keep_list(collection_dynsym, local_functions, total_size)]
    /\ UNCHANGED <<collection_dynsym, collection_symtab, local_functions, exc, batch,
                   nbatches>>

NextKeep == fixup_function_ranges \/ call_get_keep_list

SpecKeep == InitKeep /\ [][NextKeep]_vars

\* the bytes of the removed functions
RemovedBytes ==
    UNION {ByteRange(collection_dynsym[i].value, collection_dynsym[i].size) :
              i \in {j \in 1..Len(collection_dynsym) :
                        collection_dynsym[j].value \notin {f[1] : f \in local_functions}}}
    \cup UNION {ByteRange(f[1], f[2]) : f \in local_functions}

\* C30: every range [start, end] that get_keep_list returned has start <=
\* end, the ranges are in ascending order and pairwise disjoint, and the
\* bytes start .. end - 1 of all of them are exactly the bytes below
\* total_size that are in no removed function.
C30_KeepListIsComplement ==
    elf.called =>
        /\ \A i \in 1..Len(elf.keep) :
               Len(elf.keep[i]) = 2 /\ elf.keep[i][1] <= elf.keep[i][2]
        /\ \A i \in 1..(Len(elf.keep) - 1) : elf.keep[i][2] <= elf.keep[i + 1][1]
        /\ UNION {elf.keep[i][1]..(elf.keep[i][2] - 1) : i \in 1..Len(elf.keep)}
               = (0..(elf.total_size - 1)) \ RemovedBytes

====
